---- MODULE Spec2Model ----
(***************************************************************************)
(* Analysis orchestration core of the editor extension:                    *)
(*   - AnalyzerClient: supervises the analyzer rpc server process          *)
(*     (start / stop / shutdown / runAnalysis) and owns serverState,       *)
(*     isAnalyzing, the process handle and the rpc connection;             *)
(*   - BatchedAnalysisTrigger: turns file changes into batched notify      *)
(*     calls and batched partial analyses through two BackoffManagers.     *)
(*   - FileBasedLLMCache / FileBasedLLMTracer: records of model inputs and  *)
(*     outputs kept in files under <dir>/<cacheKey>/<hash(input)>.         *)
(*                                                                         *)
(* JavaScript runs every callback to completion: an action of this model   *)
(* is the code between two suspension points (an await on something that   *)
(* is not yet settled, a timer, a process event).  A continuation that is  *)
(* resumed by a promise the same callback settles runs in the microtask    *)
(* queue, before any other event, and therefore belongs to the same action.*)
(***************************************************************************)
EXTENDS Naturals, Sequences, FiniteSets

\* ------------------------------------------------------------------ bounds
MaxProcs == 2        \* start() calls that get as far as spawning a process
MaxDirect == 1       \* direct runAnalysis calls awaiting their response at once
MaxAbandoned == 1    \* cancelled Analyze requests the server still works on
MaxEvents == 3       \* file changes reported to the trigger
MaxFlights == 2      \* flush callbacks of one scheduler awaiting their call at once
MaxSolutions == 1    \* getSolution calls awaiting their response at once
MaxProgress == 2     \* my_progress messages kept in chatMessages at once
MaxTaskCalls == 4    \* calls of TaskManager.getDiagnostics
MaxIncidentFiles == 3 \* files with incidents given to the analysis-fix router
MaxRouterCalls == 5   \* invocations of the analysis-fix router
MaxTasks == 2        \* files with diagnostics tasks in one answer of the IDE
MaxAgents == 2       \* agents the planner nominates for one task
MaxOrchCalls == 6    \* invocations of the diagnostics orchestrator
MaxItems == 2        \* items of a list given to hash

\* new BackoffManager(5000, 30000, 10000) and new BackoffManager(1000, 10000, 10000)
AnalysisInitialDelay == 5000
AnalysisMaxDelay == 30000
AnalysisIncrement == 10000
NotifyInitialDelay == 1000
NotifyMaxDelay == 10000
NotifyIncrement == 10000

Procs == 1..MaxProcs

VARIABLES
  serverState,        \* ExtensionData.serverState
  isStartingServer,   \* ExtensionData.isStartingServer
  isAnalyzing,        \* ExtensionData.isAnalyzing
  analyzerRpcServer,  \* AnalyzerClient.analyzerRpcServer: 0 is null, else the process
  rpcConnection,      \* AnalyzerClient.rpcConnection: 0 is null, else the connection made by start call i
  proc,               \* each spawned process: "none" (not spawned), "alive", "terminating"
                      \* (alive, kill() has signalled it), "exited" (exitCode set),
                      \* "signalled" (ended by a signal: exitCode stays null)
  processStarted,     \* the closure variables processStarted / seenServerIsReady of each spawn
  startPc,            \* where each start() call is: "idle", "awaitTransport", "awaitReady", "returned"
  stopPc,             \* where the stop() call in progress is: "idle", "awaitShutdown", "awaitExit"
  stopFromRunning,    \* the last stop() was called in state "running"
  stopProc,           \* analyzerRpcServer when the last stop() was called
  stopDone,           \* the last stop() has resolved and start() was not called since
  stopRpc,            \* analysis_engine.Stop request in flight: "none", "direct", "stop"
  asked,              \* live processes that were sent analysis_engine.Stop
  directRuns,         \* direct runAnalysis calls awaiting the race of response and cancellation
  abandoned,          \* Analyze requests whose caller stopped waiting (cancelled)
  fired,              \* the server states broadcast by the last step, in order, or
                      \* <<"loadRuleSets">> when it executed konveyor.loadRuleSets
  solutionState,      \* ExtensionData.solutionState
  solutionRuns,       \* getSolution calls awaiting their response
  isFetchingSolution, \* ExtensionData.isFetchingSolution
  chatMessages,       \* ExtensionData.chatMessages: the text of each message, or
                      \* "my_progress" for a message the server sent
  solutionFired,      \* the solution states fired by the last step of getSolution,
                      \* in order; << >> after a my_progress notification
  lastOp,             \* what the last step was
  enableHotRerun,     \* BatchedAnalysisTrigger.enableHotRerun
  ignoredPaths,       \* the paths isUriIgnored answers true for
  notifyFileChangesQueue,    \* Map fsPath -> FileChange (NoChange: no entry)
  analysisFileChangesQueue,  \* Set of Uri objects
  notifyTimer,        \* notifyFileChangesBackoff has a timer pending
  analysisTimer,      \* analysisBackoff has a timer pending
  notifyRunning,      \* notifyFileChangesBackoff.isRunningCallback()
  analysisRunning,    \* analysisBackoff.isRunningCallback()
  notifyDelay,        \* notifyFileChangesBackoff's current delay
  analysisDelay,      \* analysisBackoff's current delay
  notifyTimeout,      \* ms until the pending timer of notifyFileChangesBackoff fires
  analysisTimeout,    \* ms until the pending timer of analysisBackoff fires
  notifyFlights,      \* the batches of the notify callbacks awaiting analyzerClient.notifyFileChanges
  analysisFlights,    \* the batches of the analysis callbacks awaiting analyzerClient.runAnalysis
  version,            \* per path, how many changes were reported: the n-th content of a path is n
  flushSeen,          \* a timer of one of the two schedulers has fired
  notifyCalls,        \* calls of analyzerClient.notifyFileChanges made by the trigger
  analysisCalls,      \* calls of analyzerClient.runAnalysis made by the trigger
  lateEvent,          \* a file change was reported after a timer had fired
  lastChange,         \* the Uri and the saved flag of the change the last step reported,
                      \* DisposeCall when it called dispose(), NoReport when it made
                      \* no call on the trigger
  cacheDir,           \* FileBasedLLMCache.cacheDir (Undefined: no cache directory)
  traceDir,           \* FileBasedLLMTracer.traceDir
  dirs,               \* the directories that exist, each a path <<root, cacheKey, hash>>
  files,              \* the content of every record file, by directory and file name
  call,               \* the lookup / update / trace calls: arguments, position, result
  diagnostics,        \* what vscode.languages.getDiagnostics() answers now
  lastDiagnostics,    \* TaskManager.lastDiagnostics: the FlatDiagnostic objects of the snapshot
  getDiagnosticsCalls,\* how many times TaskManager.getDiagnostics() has built its objects
  tasksReturned,      \* what the last getNewTasks / getCurrentAnalysisIssues returned
  toolCacheDir,       \* ToolResponseCache.cacheDir
  toolFiles,          \* the files under <cacheDir>/toolCalls, by tool directory and hash
  toolCall,           \* the last ToolResponseCache call: its arguments and what it returned
  routerState,        \* the state of the analysis-fix graph, as its nodes returned it
  fsCache,            \* AnalysisIssueFix.fsCache: the uris it holds a content for
  routerCalls,        \* invocations of fixAnalysisIssueRouter so far
  routerOut,          \* the last node that ran: what it read and what it emitted
  orchState,          \* the state of the diagnostics graph, as its nodes returned it
  diagnosticsPromises,\* DiagnosticsIssueFix.diagnosticsPromises: the ids it holds
  orchWait,           \* the orchestrator's await: idle, or the id and how the promise settled
  orchCalls,          \* invocations of orchestratePlanAndExecution so far
  orchOut             \* the last node that ran: the branch it took, whether it asked the IDE

stateVars == <<serverState, isStartingServer, fired>>
handleVars == <<analyzerRpcServer, rpcConnection>>
procVars == <<proc, processStarted>>
stopVars == <<stopPc, stopFromRunning, stopProc, stopDone>>
shutVars == <<stopRpc, asked>>
runVars == <<isAnalyzing, directRuns, abandoned>>
solVars == <<solutionState, solutionRuns, isFetchingSolution, chatMessages, solutionFired>>
queueVars == <<notifyFileChangesQueue, analysisFileChangesQueue>>
notifyVars == <<notifyTimer, notifyTimeout, notifyRunning, notifyDelay, notifyFlights>>
analysisVars == <<analysisTimer, analysisTimeout, analysisRunning, analysisDelay, analysisFlights>>
configVars == <<enableHotRerun, ignoredPaths>>
histVars == <<version, flushSeen, notifyCalls, analysisCalls, lateEvent>>
trigVars == <<configVars, queueVars, notifyVars, analysisVars, histVars>>
cacheVars == <<cacheDir, traceDir, dirs, files, call>>
supVars == <<handleVars, procVars, startPc, stopVars, shutVars>>
mcpVars == <<diagnostics, lastDiagnostics, getDiagnosticsCalls, tasksReturned>>
toolVars == <<toolCacheDir, toolFiles, toolCall>>
routerVars == <<routerState, fsCache, routerCalls, routerOut>>
orchVars == <<orchState, diagnosticsPromises, orchWait, orchCalls, orchOut>>
agentVars == <<mcpVars, toolVars, routerVars, orchVars>>
vars == <<stateVars, supVars, runVars, solVars, lastOp, trigVars, lastChange, cacheVars,
          agentVars>>

\* ------------------------------------------------------------ AnalyzerClient

NoReport == [path |-> "none", saved |-> FALSE]

\* fireServerStateChange, called once for every state of seq, in order.
FireServerStateChange(seq) ==
  /\ serverState' = seq[Len(seq)]
  /\ isStartingServer' = (seq[Len(seq)] = "starting")
  /\ fired' = seq
  /\ lastChange' = NoReport

NoFire ==
  /\ UNCHANGED <<serverState, isStartingServer>>
  /\ fired' = << >>
  /\ lastChange' = NoReport

Alive(p) == proc[p] \in {"alive", "terminating"}

\* exitCode === null: still running, or ended by a signal.
ExitCodeNull(p) == proc[p] \in {"alive", "terminating", "signalled"}

\* The next start() call is the first one not made yet.
NextStart(i) == startPc[i] = "idle" /\ \A j \in Procs : j < i => startPc[j] # "idle"

\* canAnalyze(): a label selector is configured and there is a ruleset path.
LabelSelectors == {"", "konveyor.io/target=quarkus"}
RulesetPathCounts == {0, 1}
CanAnalyze(labelSelector, rulesetPaths) == labelSelector # "" /\ rulesetPaths # 0

\* Mutant of Start: "starting" is fired before the configuration is checked.
StartFiresFirst(i, canAnalyze) ==
  /\ NextStart(i)
  /\ FireServerStateChange(<<"starting">>)
  /\ IF ~canAnalyze
       THEN /\ lastOp' = "startNoConfig"
            /\ UNCHANGED <<startPc, stopDone>>
       ELSE /\ startPc' = [startPc EXCEPT ![i] = "awaitTransport"]
            /\ lastOp' = "startCalled"
            /\ stopDone' = FALSE
  /\ UNCHANGED <<trigVars, solVars, cacheVars, agentVars, handleVars, procVars, stopPc, stopFromRunning, stopProc, shutVars, runVars>>

\* start(), up to its first await (the pipe transport).  Without a label
\* selector or rulesets it only shows an error.
Start(i, canAnalyze) ==
  /\ NextStart(i)
  /\ IF ~canAnalyze
       THEN /\ NoFire
            /\ lastOp' = "startNoConfig"
            /\ UNCHANGED <<startPc, stopDone>>
       ELSE /\ startPc' = [startPc EXCEPT ![i] = "awaitTransport"]
            /\ FireServerStateChange(<<"starting">>)
            /\ lastOp' = "startCalled"
            /\ stopDone' = FALSE
  /\ UNCHANGED <<trigVars, solVars, cacheVars, agentVars, handleVars, procVars, stopPc, stopFromRunning, stopProc, shutVars, runVars>>

\* The transport is connected: getModelProvider, then startProcessAndLogStderr
\* spawns the process, registers its handlers and awaits readiness.
TransportConnected(i, providerOk) ==
  /\ startPc[i] = "awaitTransport"
  /\ IF providerOk
       THEN /\ proc' = [proc EXCEPT ![i] = "alive"]
            /\ startPc' = [startPc EXCEPT ![i] = "awaitReady"]
            /\ NoFire
            /\ lastOp' = "spawned"
       ELSE /\ startPc' = [startPc EXCEPT ![i] = "returned"]
            /\ FireServerStateChange(<<"startFailed">>)
            /\ lastOp' = "startRejected"
            /\ UNCHANGED proc
  /\ UNCHANGED <<trigVars, solVars, cacheVars, agentVars, handleVars, processStarted, stopVars, shutVars, runVars>>

\* The states start() fires after startProcessAndLogStderr returned.
StartContinuation(connectionOk) ==
  IF connectionOk THEN <<"establishingConnection", "connectionEstablished">>
                  ELSE <<"establishingConnection", "startFailed">>

\* What the stderr "data" handler fires on the readiness line, followed by
\* what start() fires when it was still waiting for it.
ReadyFires(waiting, connectionOk) ==
  IF waiting THEN <<"running">> \o StartContinuation(connectionOk) ELSE <<"running">>

\* The stderr "data" handler sees the readiness line; when start() still
\* awaits it, start() resumes and runs to its end.
ServerReportsReady(i, connectionOk) ==
  /\ Alive(i)
  /\ ~processStarted[i]
  /\ processStarted' = [processStarted EXCEPT ![i] = TRUE]
  /\ FireServerStateChange(ReadyFires(startPc[i] = "awaitReady", connectionOk))
  /\ IF startPc[i] = "awaitReady"
       THEN /\ analyzerRpcServer' = i
            /\ rpcConnection' = IF connectionOk THEN i ELSE rpcConnection
            /\ startPc' = [startPc EXCEPT ![i] = "returned"]
            /\ lastOp' = IF connectionOk THEN "startResolved" ELSE "startRejected"
       ELSE /\ connectionOk
            /\ lastOp' = "lateReady"
            /\ UNCHANGED <<handleVars, startPc>>
  /\ UNCHANGED <<trigVars, solVars, cacheVars, agentVars, proc, stopVars, shutVars, runVars>>

\* The readiness timer wins the race: startProcessAndLogStderr throws.
ReadyTimeout(i) ==
  /\ startPc[i] = "awaitReady"
  /\ startPc' = [startPc EXCEPT ![i] = "returned"]
  /\ FireServerStateChange(<<"startFailed">>)
  /\ lastOp' = "startTimedOut"
  /\ UNCHANGED <<trigVars, solVars, cacheVars, agentVars, handleVars, procVars, stopVars, shutVars, runVars>>

\* Mutant of ExitHandlerFires: the handler does not look at processStarted.
ExitHandlerAlwaysStopped(i) == <<"stopped">>

\* What the process's own "exit" / "error" handlers fire, and what the catch
\* block of a start() that still awaits readiness fires after them.
ExitHandlerFires(i) ==
  IF processStarted[i] THEN <<"stopped">>
  ELSE IF startPc[i] = "awaitReady" THEN <<"startFailed", "startFailed">>
  ELSE <<"startFailed">>

\* The tail of stop(): kill the process the handle names now when its exitCode
\* is null, drop the handle, fire "stopped" (fired by the caller).
StopTail(procNow) ==
  /\ proc' = IF analyzerRpcServer # 0 /\ procNow[analyzerRpcServer] = "alive"
               THEN [procNow EXCEPT ![analyzerRpcServer] = "terminating"] ELSE procNow
  /\ analyzerRpcServer' = 0
  /\ stopPc' = "idle"
  /\ stopDone' = TRUE

\* The process ends: its "exit" event, or its "error" event when it could not
\* be spawned.  A stop() waiting for this exit resumes after the handler.
ProcessExit(i, how) ==
  /\ Alive(i)
  /\ how = "error" => ~processStarted[i] /\ proc[i] = "alive"
  /\ startPc' = [startPc EXCEPT ![i] = IF @ = "awaitReady" THEN "returned" ELSE @]
  /\ asked' = asked \ {i}
  /\ LET ended == [proc EXCEPT ![i] = IF how = "signal" THEN "signalled" ELSE "exited"]
     IN IF stopPc = "awaitExit" /\ stopProc = i /\ how # "error"
          THEN /\ StopTail(ended)
               /\ FireServerStateChange(ExitHandlerFires(i) \o <<"stopped">>)
               /\ lastOp' = "stopResolved"
          ELSE /\ proc' = ended
               /\ FireServerStateChange(ExitHandlerFires(i))
               /\ lastOp' = IF startPc[i] = "awaitReady" THEN "startRejected" ELSE "exit"
               /\ UNCHANGED <<analyzerRpcServer, stopPc, stopDone>>
  /\ UNCHANGED <<trigVars, solVars, cacheVars, agentVars, rpcConnection, processStarted, stopFromRunning, stopProc, stopRpc, runVars>>

ExitKinds == {"code", "signal", "error"}

\* The switch at the head of shutdown().
ShutdownAllowed(state) == state \in {"connectionEstablished", "running"}

\* shutdown() called directly.
Shutdown ==
  /\ stopRpc = "none"
  /\ IF ShutdownAllowed(serverState) /\ rpcConnection # 0
       THEN /\ stopRpc' = "direct"
            /\ asked' = IF Alive(rpcConnection) THEN asked \cup {rpcConnection} ELSE asked
            /\ lastOp' = "stopRequestSent"
       ELSE /\ lastOp' = "shutdownSkipped"
            /\ UNCHANGED <<stopRpc, asked>>
  /\ NoFire
  /\ UNCHANGED <<trigVars, solVars, cacheVars, agentVars, handleVars, procVars, startPc, stopVars, runVars>>

\* Mutant of StopCloseAndWait: stop() waits for an exit event even when
\* there is no process handle.
StopCloseAndWaitAlways(h, fires) ==
  /\ rpcConnection' = 0
  /\ stopPc' = "awaitExit"
  /\ stopDone' = FALSE
  /\ FireServerStateChange(fires)
  /\ lastOp' = "stopWaiting"
  /\ UNCHANGED <<proc, analyzerRpcServer>>

\* stop() from the closing of the connection on: end and dispose the
\* connection, then race the exit of the process against the 5 s timer.
StopCloseAndWait(h, fires) ==
  /\ rpcConnection' = 0
  /\ IF h # 0 /\ ExitCodeNull(h)
       THEN /\ stopPc' = "awaitExit"
            /\ stopDone' = FALSE
            /\ FireServerStateChange(fires)
            /\ lastOp' = "stopWaiting"
            /\ UNCHANGED <<proc, analyzerRpcServer>>
       ELSE /\ StopTail(proc)
            /\ FireServerStateChange(fires \o <<"stopped">>)
            /\ lastOp' = "stopResolved"

\* stop(): the exit promise, "stopping", shutdown(), and on from there.
Stop ==
  /\ stopPc = "idle"
  /\ stopFromRunning' = (serverState = "running")
  /\ stopProc' = analyzerRpcServer
  /\ IF ShutdownAllowed("stopping") /\ rpcConnection # 0 /\ stopRpc = "none"
       THEN /\ stopRpc' = "stop"
            /\ asked' = IF Alive(rpcConnection) THEN asked \cup {rpcConnection} ELSE asked
            /\ stopPc' = "awaitShutdown"
            /\ stopDone' = FALSE
            /\ FireServerStateChange(<<"stopping">>)
            /\ lastOp' = "stopAwaitsShutdown"
            /\ UNCHANGED <<rpcConnection, proc, analyzerRpcServer>>
       ELSE /\ StopCloseAndWait(analyzerRpcServer, <<"stopping">>)
            /\ UNCHANGED <<stopRpc, asked>>
  /\ UNCHANGED <<trigVars, solVars, cacheVars, agentVars, processStarted, startPc, runVars>>

\* The analysis_engine.Stop request settles (an error is logged and swallowed).
ShutdownReply(ok) ==
  /\ stopRpc # "none"
  /\ stopRpc' = "none"
  /\ IF stopRpc = "stop"
       THEN /\ StopCloseAndWait(stopProc, << >>)
       ELSE /\ NoFire
            /\ lastOp' = IF ok THEN "shutdownDone" ELSE "shutdownFailed"
            /\ UNCHANGED <<handleVars, proc, stopPc, stopDone>>
  /\ UNCHANGED <<trigVars, solVars, cacheVars, agentVars, processStarted, startPc, stopFromRunning, stopProc, asked, runVars>>

\* The 5 s timer of stop() wins the race.
StopTimeout ==
  /\ stopPc = "awaitExit"
  /\ StopTail(proc)
  /\ FireServerStateChange(<<"stopped">>)
  /\ lastOp' = "stopTimedOut"
  /\ UNCHANGED <<trigVars, solVars, cacheVars, agentVars, rpcConnection, processStarted, startPc, stopFromRunning, stopProc, shutVars, runVars>>

\* Mutant of RunAnalysisAllowed: the server state is not looked at.
RunAnalysisAllowedAnyState == rpcConnection # 0

\* The guard at the head of runAnalysis.
RunAnalysisAllowed == serverState = "running" /\ rpcConnection # 0

\* runAnalysis called directly (manual analysis, runPartialAnalysis), up to
\* the await of the race between the response and the cancellation.
RunAnalysis(cancelRequested) ==
  /\ IF ~RunAnalysisAllowed
       THEN /\ ~cancelRequested
            /\ lastOp' = "runAnalysisSkipped"
            /\ UNCHANGED runVars
       ELSE IF cancelRequested
       THEN /\ lastOp' = "runAnalysisCancelledEarly"
            /\ isAnalyzing' = FALSE
            /\ UNCHANGED <<directRuns, abandoned>>
       ELSE /\ directRuns < MaxDirect
            /\ lastOp' = "analyzeSent"
            /\ isAnalyzing' = TRUE
            /\ directRuns' = directRuns + 1
            /\ UNCHANGED abandoned
  /\ NoFire
  /\ UNCHANGED <<trigVars, solVars, cacheVars, agentVars, handleVars, procVars, startPc, stopVars, shutVars>>

AnalyzeOutcomes == {"analysisLoaded", "analysisMalformed", "analysisFailed"}

\* Mutant of LoadsRuleSets: the shape of the response is not checked.
LoadsRuleSetsUnchecked(outcome) == outcome \in {"analysisLoaded", "analysisMalformed"}

\* konveyor.loadRuleSets is executed for a response that isAnalysisResponse
\* accepts, and for no other outcome of the request.
LoadsRuleSets(outcome) == outcome = "analysisLoaded"

\* What a step that fires no server state executes.
Executes(load) ==
  /\ UNCHANGED <<serverState, isStartingServer>>
  /\ fired' = IF load THEN <<"loadRuleSets">> ELSE << >>
  /\ lastChange' = NoReport

\* Mutant of AnalyzeResponse: a rejected request marks the server as failed.
AnalyzeResponseMarksFailed(outcome) ==
  /\ directRuns > 0
  /\ directRuns' = directRuns - 1
  /\ isAnalyzing' = FALSE
  /\ lastOp' = outcome
  /\ IF outcome = "analysisFailed"
       THEN FireServerStateChange(<<"startFailed">>)
       ELSE Executes(LoadsRuleSets(outcome))
  /\ UNCHANGED <<trigVars, solVars, cacheVars, agentVars, handleVars, procVars, startPc, stopVars, shutVars, abandoned>>

\* The Analyze request of a direct runAnalysis settles: a well-formed
\* response, a malformed one, or a rejection.
AnalyzeResponse(outcome) ==
  /\ directRuns > 0
  /\ directRuns' = directRuns - 1
  /\ isAnalyzing' = FALSE
  /\ lastOp' = outcome
  /\ Executes(LoadsRuleSets(outcome))
  /\ UNCHANGED <<trigVars, solVars, cacheVars, agentVars, handleVars, procVars, startPc, stopVars, shutVars, abandoned>>

\* The user cancels a direct runAnalysis that awaits its response: the call
\* returns, the request stays with the server.
AnalyzeCancelled ==
  /\ directRuns > 0
  /\ abandoned < MaxAbandoned
  /\ directRuns' = directRuns - 1
  /\ abandoned' = abandoned + 1
  /\ isAnalyzing' = FALSE
  /\ lastOp' = "analysisCancelled"
  /\ NoFire
  /\ UNCHANGED <<trigVars, solVars, cacheVars, agentVars, handleVars, procVars, startPc, stopVars, shutVars>>

\* Mutant of AbandonedResponse: the late response is loaded all the same.
AbandonedResponseLoaded ==
  /\ abandoned > 0
  /\ abandoned' = abandoned - 1
  /\ lastOp' = "responseDropped"
  /\ Executes(TRUE)
  /\ UNCHANGED <<trigVars, solVars, cacheVars, agentVars, handleVars, procVars, startPc, stopVars, shutVars, isAnalyzing, directRuns>>

\* The response to an abandoned request arrives and is dropped.
AbandonedResponse ==
  /\ abandoned > 0
  /\ abandoned' = abandoned - 1
  /\ lastOp' = "responseDropped"
  /\ NoFire
  /\ UNCHANGED <<trigVars, solVars, cacheVars, agentVars, handleVars, procVars, startPc, stopVars, shutVars, isAnalyzing, directRuns>>

\* The chat messages after fireSolutionStateChange(state, message) was called
\* for every <<state, message>> of calls, in order: "started" empties the
\* list, and every call pushes its message.
RECURSIVE ChatAfter(_, _)
ChatAfter(chat, calls) ==
  IF calls = << >> THEN chat
  ELSE ChatAfter(Append(IF Head(calls)[1] = "started" THEN << >> ELSE chat,
                        Head(calls)[2]),
                 Tail(calls))

\* fireSolutionStateChange, called once for every <<state, message>> of calls.
FireSolutionStateChange(calls) ==
  /\ solutionState' = calls[Len(calls)][1]
  /\ isFetchingSolution' = (calls[Len(calls)][1] = "sent")
  /\ chatMessages' = ChatAfter(chatMessages, calls)
  /\ solutionFired' = [k \in 1..Len(calls) |-> calls[k][1]]

\* Mutant of GetSolutionAllowed: the server state is not looked at.
GetSolutionAllowedAnyState == rpcConnection # 0

\* The guard at the head of getSolution.
GetSolutionAllowed == serverState = "running" /\ rpcConnection # 0

\* getSolution, up to the await of its request: "started", then either
\* "failedOnStart" or "sent" and the getCodeplanAgentSolution request.
GetSolution ==
  /\ IF ~GetSolutionAllowed
       THEN /\ FireSolutionStateChange(<<
                 <<"started", "Checking server state...">>,
                 <<"failedOnStart", "kai rpc server is not running">> >>)
            /\ lastOp' = "getSolutionSkipped"
            /\ UNCHANGED solutionRuns
       ELSE /\ solutionRuns < MaxSolutions
            /\ FireSolutionStateChange(<<
                 <<"started", "Checking server state...">>,
                 <<"sent", "Waiting for the resolution...">> >>)
            /\ solutionRuns' = solutionRuns + 1
            /\ lastOp' = "solutionSent"
  /\ NoFire
  /\ UNCHANGED <<trigVars, supVars, runVars, cacheVars, agentVars>>

\* The getCodeplanAgentSolution request settles: "received" and
\* konveyor.loadSolution, or the catch block with "failedOnSending".
SolutionResponse(ok) ==
  /\ solutionRuns > 0
  /\ solutionRuns' = solutionRuns - 1
  /\ FireSolutionStateChange(
       IF ok THEN << <<"received", "Received response...">> >>
             ELSE << <<"failedOnSending", "Failed to provide resolutions.">> >>)
  /\ lastOp' = IF ok THEN "solutionReceived" ELSE "solutionFailed"
  /\ NoFire
  /\ UNCHANGED <<trigVars, supVars, runVars, cacheVars, agentVars>>

ProgressMessages == SelectSeq(chatMessages, LAMBDA msg : msg = "my_progress")

\* The server sends a my_progress notification over the connection start()
\* listens on: addSolutionChatMessage pushes it while a solution is awaited
\* and drops it otherwise.
MyProgress ==
  /\ rpcConnection # 0
  /\ Alive(rpcConnection)
  /\ Len(ProgressMessages) < MaxProgress
  /\ IF solutionState # "sent"
       THEN /\ lastOp' = "progressDropped"
            /\ UNCHANGED chatMessages
       ELSE /\ lastOp' = "progressAdded"
            /\ chatMessages' = Append(chatMessages, "my_progress")
  /\ solutionFired' = << >>
  /\ NoFire
  /\ UNCHANGED <<trigVars, supVars, runVars, cacheVars, agentVars, solutionState, solutionRuns,
                 isFetchingSolution>>

\* ---------------------------------------------------- BackoffManager

\* schedule(task) cancels the pending timer, if any, and arms one: a timer is
\* pending.  A timer that fired is no longer pending.
Scheduled == TRUE
Expired == FALSE

\* The fired timer invokes the task and the manager is busy until the task
\* returns: isRunningCallback() is true while the task awaits, false after.
\* Nothing keeps a newly armed timer from firing while the task awaits.
Busy == TRUE
Idle == FALSE

\* Mutant of IncreaseBackoff: the delay is not capped at the maximum.
IncreaseBackoffUncapped(delay, increment, maxDelay) == delay + increment

\* increaseBackoff(): the delay moves up by the increment, capped at the maximum.
IncreaseBackoff(delay, increment, maxDelay) ==
  IF delay + increment < maxDelay THEN delay + increment ELSE maxDelay

\* --------------------------------------------- BatchedAnalysisTrigger

\* Uri objects: "a1" (from the file watcher) and "a2" (from the saved
\* document) are two objects for the same file.
UriObjs == {"a1", "a2", "b1"}
Paths == {"A", "B"}
FsPath(u) == IF u \in {"a1", "a2"} THEN "A" ELSE "B"
NoChange == [path |-> "none", content |-> 0]
IsUriIgnored(u) == FsPath(u) \in ignoredPaths
NumEvents == version["A"] + version["B"]

supFrame ==
  /\ NoFire
  /\ UNCHANGED <<supVars, lastOp>>

\* Mutant of NotifyFileChanges: without hot rerun an unsaved change is staged
\* for analysis as well.
NotifyFileChangesIgnoresSaved(u, saved) ==
  /\ NumEvents < MaxEvents
  /\ version' = [version EXCEPT ![FsPath(u)] = @ + 1]
  /\ LET change == [path |-> u, content |-> version[FsPath(u)] + 1]
     IN IF enableHotRerun
          THEN /\ notifyFileChangesQueue' =
                    [notifyFileChangesQueue EXCEPT ![FsPath(u)] = change]
               /\ notifyTimer' = Scheduled
               /\ notifyTimeout' = notifyDelay
               /\ analysisFileChangesQueue' = analysisFileChangesQueue \cup {u}
               /\ analysisTimer' = Scheduled
               /\ analysisTimeout' = analysisDelay
          ELSE /\ analysisFileChangesQueue' = analysisFileChangesQueue \cup {u}
               /\ analysisTimer' = Scheduled
               /\ analysisTimeout' = analysisDelay
               /\ UNCHANGED <<notifyFileChangesQueue, notifyTimer, notifyTimeout>>
  /\ lateEvent' = (lateEvent \/ flushSeen)
  /\ lastChange' = [path |-> u, saved |-> saved]
  /\ fired' = << >>
  /\ UNCHANGED <<serverState, isStartingServer, supVars, lastOp>>
  /\ UNCHANGED <<runVars, configVars, solVars, cacheVars, agentVars, notifyRunning, notifyDelay, notifyFlights,
                 analysisRunning, analysisDelay, analysisFlights,
                 flushSeen, notifyCalls, analysisCalls>>

\* notifyFileChanges(change)
NotifyFileChanges(u, saved) ==
  /\ NumEvents < MaxEvents
  /\ version' = [version EXCEPT ![FsPath(u)] = @ + 1]
  /\ LET change == [path |-> u, content |-> version[FsPath(u)] + 1]
     IN IF enableHotRerun
          THEN /\ notifyFileChangesQueue' =
                    [notifyFileChangesQueue EXCEPT ![FsPath(u)] = change]
               /\ notifyTimer' = Scheduled
               /\ notifyTimeout' = notifyDelay
               /\ analysisFileChangesQueue' = analysisFileChangesQueue \cup {u}
               /\ analysisTimer' = Scheduled
               /\ analysisTimeout' = analysisDelay
          ELSE IF saved
          THEN /\ analysisFileChangesQueue' = analysisFileChangesQueue \cup {u}
               /\ analysisTimer' = Scheduled
               /\ analysisTimeout' = analysisDelay
               /\ UNCHANGED <<notifyFileChangesQueue, notifyTimer, notifyTimeout>>
          ELSE UNCHANGED <<queueVars, notifyTimer, notifyTimeout, analysisTimer,
                           analysisTimeout>>
  /\ lateEvent' = (lateEvent \/ flushSeen)
  /\ lastChange' = [path |-> u, saved |-> saved]
  /\ fired' = << >>
  /\ UNCHANGED <<serverState, isStartingServer, supVars, lastOp>>
  /\ UNCHANGED <<runVars, configVars, solVars, cacheVars, agentVars, notifyRunning, notifyDelay, notifyFlights,
                 analysisRunning, analysisDelay, analysisFlights,
                 flushSeen, notifyCalls, analysisCalls>>

\* The changes a notify flush sends: the queued changes that are not ignored.
NotifyBatch ==
  {notifyFileChangesQueue[p] : p \in {q \in Paths :
      /\ notifyFileChangesQueue[q] # NoChange
      /\ ~IsUriIgnored(notifyFileChangesQueue[q].path)}}

\* The timer of notifyFileChangesBackoff fires and runs the callback of
\* scheduleNotifyFileChanges up to its await.
NotifyTimerFires ==
  /\ notifyTimer
  /\ flushSeen' = TRUE
  /\ IF isAnalyzing \/ analysisRunning
       THEN /\ notifyTimer' = Scheduled
            /\ notifyTimeout' = notifyDelay
            /\ notifyRunning' = Idle
            /\ UNCHANGED <<notifyFlights, notifyCalls>>
       ELSE IF NotifyBatch = {}
       THEN /\ notifyTimer' = Expired
            /\ notifyTimeout' = 0
            /\ notifyRunning' = Idle
            /\ UNCHANGED <<notifyFlights, notifyCalls>>
       ELSE /\ Len(notifyFlights) < MaxFlights
            /\ notifyTimer' = Expired
            /\ notifyTimeout' = 0
            /\ notifyRunning' = Busy
            /\ notifyFlights' = Append(notifyFlights, NotifyBatch)
            /\ notifyCalls' = notifyCalls + 1
  /\ supFrame
  /\ UNCHANGED <<runVars, configVars, solVars, cacheVars, agentVars, queueVars, notifyDelay, analysisVars,
                 version, analysisCalls, lateEvent>>

RemoveAt(seq, k) == [j \in 1..(Len(seq) - 1) |-> IF j < k THEN seq[j] ELSE seq[j + 1]]

\* analyzerClient.notifyFileChanges settles; the callback deletes what it
\* sent when the call succeeded, and increases the backoff.
NotifyFlushDone(k, ok) ==
  /\ k \in 1..Len(notifyFlights)
  /\ notifyFileChangesQueue' =
       IF ok THEN [p \in Paths |->
                     IF \E c \in notifyFlights[k] : FsPath(c.path) = p
                       THEN NoChange ELSE notifyFileChangesQueue[p]]
             ELSE notifyFileChangesQueue
  /\ notifyDelay' = IncreaseBackoff(notifyDelay, NotifyIncrement, NotifyMaxDelay)
  /\ notifyRunning' = Idle
  /\ notifyFlights' = RemoveAt(notifyFlights, k)
  /\ supFrame
  /\ UNCHANGED <<runVars, configVars, solVars, cacheVars, agentVars, analysisFileChangesQueue, notifyTimer,
                 notifyTimeout, analysisVars, histVars>>

\* Mutant of AnalysisBatch: the analysis flush sends every staged Uri.
AnalysisBatchUnfiltered == analysisFileChangesQueue

\* The Uri objects an analysis flush sends.
AnalysisBatch == {u \in analysisFileChangesQueue : ~IsUriIgnored(u)}

\* Mutant of AnalysisFlushEnd: the sent Uris are not deleted.
AnalysisFlushEndKeepsSent(batch) ==
  /\ analysisFileChangesQueue' = analysisFileChangesQueue
  /\ analysisDelay' = IncreaseBackoff(analysisDelay, AnalysisIncrement, AnalysisMaxDelay)
  /\ analysisRunning' = Idle

\* The end of the callback of schedulePartialAnalysis, after runAnalysis
\* returned: delete what was sent, increase the backoff.
AnalysisFlushEnd(batch) ==
  /\ analysisFileChangesQueue' = analysisFileChangesQueue \ batch
  /\ analysisDelay' = IncreaseBackoff(analysisDelay, AnalysisIncrement, AnalysisMaxDelay)
  /\ analysisRunning' = Idle

\* The timer of analysisBackoff fires and runs the callback of
\* schedulePartialAnalysis up to its await; a runAnalysis that returns at
\* once lets the callback run to its end.
AnalysisTimerFires(cancelRequested) ==
  /\ analysisTimer
  /\ flushSeen' = TRUE
  /\ IF isAnalyzing \/ notifyRunning
       THEN /\ ~cancelRequested
            /\ analysisTimer' = Scheduled
            /\ analysisTimeout' = analysisDelay
            /\ analysisRunning' = Idle
            /\ UNCHANGED <<runVars, analysisFileChangesQueue, analysisDelay,
                           analysisFlights, analysisCalls>>
       ELSE IF AnalysisBatch = {}
       THEN /\ ~cancelRequested
            /\ analysisTimer' = Expired
            /\ analysisTimeout' = 0
            /\ analysisRunning' = Idle
            /\ UNCHANGED <<runVars, analysisFileChangesQueue, analysisDelay,
                           analysisFlights, analysisCalls>>
       ELSE /\ analysisTimer' = Expired
            /\ analysisTimeout' = 0
            /\ analysisCalls' = analysisCalls + 1
            /\ IF ~RunAnalysisAllowed
                 THEN /\ ~cancelRequested
                      /\ AnalysisFlushEnd(AnalysisBatch)
                      /\ UNCHANGED <<runVars, analysisFlights>>
                 ELSE IF cancelRequested
                 THEN /\ AnalysisFlushEnd(AnalysisBatch)
                      /\ isAnalyzing' = FALSE
                      /\ UNCHANGED <<directRuns, abandoned, analysisFlights>>
                 ELSE /\ Len(analysisFlights) < MaxFlights
                      /\ isAnalyzing' = TRUE
                      /\ analysisRunning' = Busy
                      /\ analysisFlights' = Append(analysisFlights, AnalysisBatch)
                      /\ UNCHANGED <<directRuns, abandoned, analysisFileChangesQueue,
                                     analysisDelay>>
  /\ supFrame
  /\ UNCHANGED <<configVars, solVars, cacheVars, agentVars, notifyFileChangesQueue, notifyVars,
                 version, notifyCalls, lateEvent>>

\* The Analyze request of an analysis flush settles, or the user cancels the
\* wait for it (the request then stays with the server): runAnalysis returns
\* and the callback ends.
AnalysisFlushDone(k, outcome) ==
  /\ k \in 1..Len(analysisFlights)
  /\ outcome = "analysisCancelled" => abandoned < MaxAbandoned
  /\ abandoned' = IF outcome = "analysisCancelled" THEN abandoned + 1 ELSE abandoned
  /\ isAnalyzing' = FALSE
  /\ AnalysisFlushEnd(analysisFlights[k])
  /\ analysisFlights' = RemoveAt(analysisFlights, k)
  /\ Executes(LoadsRuleSets(outcome))
  /\ UNCHANGED <<supVars, lastOp>>
  /\ UNCHANGED <<directRuns, configVars, solVars, cacheVars, agentVars, notifyFileChangesQueue, notifyVars,
                 analysisTimer, analysisTimeout, histVars>>

\* ------------------------------------- FileBasedLLMCache, FileBasedLLMTracer

\* The values a BaseLanguageModelInput takes: a string, one BaseMessage, a
\* prompt value (toChatMessages), a list of such items, or something else
\* (a number, a plain object) that serialize does not support.
Texts == {"Hello", "World!"}
MessageTypes == {"human", "ai"}
Message(type, content) ==
  [shape |-> "message", type |-> type, text |-> content, items |-> << >>]
StringInput(s) == [shape |-> "string", type |-> "", text |-> s, items |-> << >>]
PromptValue(messages) == [shape |-> "prompt", type |-> "", text |-> "", items |-> messages]
ListInput(items) == [shape |-> "list", type |-> "", text |-> "", items |-> items]
Unsupported == [shape |-> "other", type |-> "", text |-> "", items |-> << >>]

Messages == {Message(t, s) : t \in MessageTypes, s \in Texts}

\* mapChatMessagesToStoredMessages and mapStoredMessagesToChatMessages: a
\* stored message is the plain record of the type and the data of a message.
StoredMessage(m) == [type |-> m.type, content |-> m.text]
MapChatMessagesToStoredMessages(messages) ==
  [j \in 1..Len(messages) |-> StoredMessage(messages[j])]
MapStoredMessagesToChatMessages(stored) ==
  [j \in 1..Len(stored) |-> Message(stored[j].type, stored[j].content)]

\* The flatMap of serialize over the items of a list, followed by
\* filter(Boolean): a message stays, a prompt value gives its messages, a
\* string becomes a human message, anything else is dropped.
RECURSIVE FlatMapItems(_)
FlatMapItems(items) ==
  IF items = << >> THEN << >>
  ELSE LET item == Head(items)
           mapped == CASE item.shape = "message" -> <<item>>
                       [] item.shape = "prompt" -> item.items
                       [] item.shape = "string" -> <<Message("human", item.text)>>
                       [] OTHER -> << >>
       IN mapped \o FlatMapItems(Tail(items))

Thrown == [ok |-> FALSE, stored |-> << >>]
Returned(stored) == [ok |-> TRUE, stored |-> stored]

\* Mutant of Serialize: a string is stored as it is, not as a human message.
SerializeKeepsStrings(data) ==
  CASE data.shape = "message" -> Returned(MapChatMessagesToStoredMessages(<<data>>))
    [] data.shape = "string" -> Returned(MapChatMessagesToStoredMessages(<<data>>))
    [] data.shape = "prompt" -> Returned(MapChatMessagesToStoredMessages(data.items))
    [] data.shape = "list" ->
         Returned(MapChatMessagesToStoredMessages(FlatMapItems(data.items)))
    [] OTHER -> Thrown

\* serialize(data)
Serialize(data) ==
  CASE data.shape = "message" -> Returned(MapChatMessagesToStoredMessages(<<data>>))
    [] data.shape = "string" ->
         Returned(MapChatMessagesToStoredMessages(<<Message("human", data.text)>>))
    [] data.shape = "prompt" -> Returned(MapChatMessagesToStoredMessages(data.items))
    [] data.shape = "list" ->
         Returned(MapChatMessagesToStoredMessages(FlatMapItems(data.items)))
    [] OTHER -> Thrown

\* The number of characters a list of stored messages takes when written.
RECURSIVE TextSize(_)
TextSize(stored) ==
  IF stored = << >> THEN 0
  ELSE Len(Head(stored).type) + Len(Head(stored).content) + TextSize(Tail(stored))

\* The content of a file: none (the file does not exist), empty (opened for
\* writing, nothing written yet), the JSON text or the readable rendering of
\* a list of stored messages, JSON that is not a list, or the front of one
\* text followed by the rest of a longer one.
Absent == [kind |-> "absent", stored |-> << >>, size |-> 0]
Empty == [kind |-> "empty", stored |-> << >>, size |-> 0]
NotAList == [kind |-> "notList", stored |-> << >>, size |-> 2]
Garbled(size) == [kind |-> "garbled", stored |-> << >>, size |-> size]

\* JSON.stringify(serialize(data))
Stringify(stored) == [kind |-> "json", stored |-> stored, size |-> TextSize(stored)]

\* prettyPrint(data): the "Type: ... Content: ..." blocks of the messages.
PrettyPrint(stored) ==
  [kind |-> "text", stored |-> MapStoredMessagesToChatMessages(stored),
   size |-> TextSize(stored)]

NoKey == [digest |-> "none", of |-> << >>]

\* hash(input): the first 16 hex digits of the SHA-256 digest of the JSON
\* text of serialize(input).  SHA-256 is taken to be free of collisions on
\* the texts of this model, so the digest stands for the text it was made of.
Hash(input) ==
  IF Serialize(input).ok
    THEN [digest |-> "sha256/16", of |-> Stringify(Serialize(input).stored)]
    ELSE NoKey

\* deserialize(data)
Deserialize(content) ==
  IF content.kind = "json"
    THEN Returned(MapStoredMessagesToChatMessages(content.stored))
    ELSE Thrown

\* The arguments the calls are made with.
CacheInputs ==
  { StringInput("Hello"),
    Message("human", "Hello"),
    ListInput(<<StringInput("Hello")>>),
    ListInput(<<Message("human", "Hello"), Message("ai", "World!")>>),
    Unsupported }
CacheKeys == {"test", "test2"}
CacheValues == {Message("ai", "World!"), Message("ai", "Hello")}
Calls == {"c1", "c2"}

Undefined == "undefined"
Roots == {"cacheDir", "traceDir"}
Hashes == {Hash(i) : i \in {j \in CacheInputs : Serialize(j).ok}}
BasePaths == Roots \X CacheKeys \X Hashes
RecordNames == {"input.json", "output.json", "input", "output"}

\* pathlib.join(dir, cacheKey, hash(input))
BasePath(dir, cacheKey, input) == <<dir, cacheKey, Hash(input)>>

Pending == [kind |-> "pending", path |-> << >>, messages |-> << >>, key |-> NoKey]
ReturnsUndefined == [kind |-> "undefined", path |-> << >>, messages |-> << >>, key |-> NoKey]
ReturnsPath(p) == [kind |-> "path", path |-> p, messages |-> << >>, key |-> NoKey]
ReturnsMessages(ms) == [kind |-> "messages", path |-> << >>, messages |-> ms, key |-> NoKey]
ReturnsKey(k) == [kind |-> "key", path |-> << >>, messages |-> << >>, key |-> k]
Throws == [kind |-> "thrown", path |-> << >>, messages |-> << >>, key |-> NoKey]

NoCall ==
  [op |-> "none", input |-> Unsupported, cacheKey |-> "", value |-> Unsupported,
   pc |-> "idle", at |-> "idle", base |-> << >>, after |-> {}, result |-> Pending]

Finished == {c \in Calls : call[c].pc = "done"}

nonCacheFrame ==
  /\ NoFire
  /\ UNCHANGED <<supVars, lastOp, runVars, solVars, trigVars, agentVars>>

\* The call ends: its promise resolves with the result; at is the step of
\* the call that ended it.
Resolve(c, result) ==
  call' = [call EXCEPT ![c].pc = "done", ![c].at = call[c].pc, ![c].result = result]

\* update(input, cacheKey, value) up to its first await: nothing to do
\* without a cache directory; hash and serialize throw into the catch block
\* for data they do not support.
Update(c, input, cacheKey, value) ==
  /\ call[c].pc = "idle"
  /\ LET started == [NoCall EXCEPT !.op = "update", !.input = input,
                        !.cacheKey = cacheKey, !.value = value, !.after = Finished]
     IN call' = [call EXCEPT ![c] =
          IF cacheDir = Undefined \/ ~Serialize(input).ok \/ ~Serialize(value).ok
            THEN [started EXCEPT !.pc = "done", !.result = ReturnsUndefined]
            ELSE [started EXCEPT !.pc = "mkdir",
                                 !.base = BasePath(cacheDir, cacheKey, input)]]
  /\ UNCHANGED <<cacheDir, traceDir, dirs, files>>
  /\ nonCacheFrame

\* trace(input, cacheKey, value) up to its first await.
Trace(c, input, cacheKey, value) ==
  /\ call[c].pc = "idle"
  /\ LET started == [NoCall EXCEPT !.op = "trace", !.input = input,
                        !.cacheKey = cacheKey, !.value = value, !.after = Finished]
     IN call' = [call EXCEPT ![c] =
          IF ~Serialize(input).ok \/ ~Serialize(value).ok
            THEN [started EXCEPT !.pc = "done", !.result = ReturnsUndefined]
            ELSE [started EXCEPT !.pc = "mkdir",
                                 !.base = BasePath(traceDir, cacheKey, input)]]
  /\ UNCHANGED <<cacheDir, traceDir, dirs, files>>
  /\ nonCacheFrame

\* Mutant of IsJson: the tracer writes its records as the cache does.
IsJsonAlways(c) == call[c].op \in {"update", "trace"}

IsJson(c) == call[c].op = "update"
InputRecordPath(c) == <<call[c].base, IF IsJson(c) THEN "input.json" ELSE "input">>
OutputRecordPath(c) == <<call[c].base, IF IsJson(c) THEN "output.json" ELSE "output">>
InputRecord(c) ==
  IF IsJson(c) THEN Stringify(Serialize(call[c].input).stored)
               ELSE PrettyPrint(Serialize(call[c].input).stored)
OutputRecord(c) ==
  IF IsJson(c) THEN Stringify(Serialize(call[c].value).stored)
               ELSE PrettyPrint(Serialize(call[c].value).stored)

\* writeInputAndOutputRecord: fs.mkdir(basePath, {recursive: true}) settles.
Mkdir(c, ok) ==
  /\ call[c].pc = "mkdir"
  /\ IF ok
       THEN /\ dirs' = dirs \cup {call[c].base}
            /\ call' = [call EXCEPT ![c].pc = "writeInput"]
       ELSE /\ Resolve(c, ReturnsUndefined)
            /\ UNCHANGED dirs
  /\ UNCHANGED <<cacheDir, traceDir, files>>
  /\ nonCacheFrame

\* What a file holds after text was written from its start over what it
\* held: the text, unless a longer text was there, whose rest then follows.
Overwritten(old, text) == IF old.size <= text.size THEN text ELSE Garbled(old.size)

\* writeInputAndOutputRecord: fs.writeFile(inputRecordPath, input) settles.
\* Every writer of this file writes the same text.
WriteInput(c, ok) ==
  /\ call[c].pc = "writeInput"
  /\ IF ok
       THEN /\ files' = [files EXCEPT ![InputRecordPath(c)] = InputRecord(c)]
            /\ call' = [call EXCEPT ![c].pc = "openOutput"]
       ELSE /\ Resolve(c, ReturnsUndefined)
            /\ UNCHANGED files
  /\ UNCHANGED <<cacheDir, traceDir, dirs>>
  /\ nonCacheFrame

\* fs.writeFile(outputRecordPath, output) opens the file, which empties it.
\* Node's writeFile is not atomic: the file is opened (and truncated), then
\* written, and two calls on one file may interleave.
OpenOutput(c, ok) ==
  /\ call[c].pc = "openOutput"
  /\ IF ok
       THEN /\ files' = [files EXCEPT ![OutputRecordPath(c)] = Empty]
            /\ call' = [call EXCEPT ![c].pc = "writeOutput"]
       ELSE /\ Resolve(c, ReturnsUndefined)
            /\ UNCHANGED files
  /\ UNCHANGED <<cacheDir, traceDir, dirs>>
  /\ nonCacheFrame

\* Mutant of WriteOutput: the directory is returned although the write failed.
WriteOutputReturnsAnyway(c, ok) ==
  /\ call[c].pc = "writeOutput"
  /\ IF ok
       THEN /\ files' = [files EXCEPT ![OutputRecordPath(c)] =
                           Overwritten(@, OutputRecord(c))]
            /\ Resolve(c, ReturnsPath(call[c].base))
       ELSE /\ Resolve(c, ReturnsPath(call[c].base))
            /\ UNCHANGED files
  /\ UNCHANGED <<cacheDir, traceDir, dirs>>
  /\ nonCacheFrame

\* fs.writeFile(outputRecordPath, output) writes and settles; the caller
\* returns path.dirname(outputRecordPath), or undefined from its catch block.
WriteOutput(c, ok) ==
  /\ call[c].pc = "writeOutput"
  /\ IF ok
       THEN /\ files' = [files EXCEPT ![OutputRecordPath(c)] =
                           Overwritten(@, OutputRecord(c))]
            /\ Resolve(c, ReturnsPath(call[c].base))
       ELSE /\ Resolve(c, ReturnsUndefined)
            /\ UNCHANGED files
  /\ UNCHANGED <<cacheDir, traceDir, dirs>>
  /\ nonCacheFrame

\* lookup(input, cacheKey) up to its first await.
Lookup(c, input, cacheKey) ==
  /\ call[c].pc = "idle"
  /\ LET started == [NoCall EXCEPT !.op = "lookup", !.input = input,
                        !.cacheKey = cacheKey, !.after = Finished]
     IN call' = [call EXCEPT ![c] =
          IF cacheDir = Undefined \/ ~Serialize(input).ok
            THEN [started EXCEPT !.pc = "done", !.result = ReturnsUndefined]
            ELSE [started EXCEPT !.pc = "stat",
                                 !.base = BasePath(cacheDir, cacheKey, input)]]
  /\ UNCHANGED <<cacheDir, traceDir, dirs, files>>
  /\ nonCacheFrame

\* Mutant of LlmOutputCachePath: lookup reads the input record.
LlmInputCachePath(c) == <<call[c].base, "input.json">>

LlmOutputCachePath(c) == <<call[c].base, "output.json">>

\* fs.stat(llmOutputCachePath) settles: it rejects when there is no such
\* file (or on an I/O error), and lookup returns undefined from its catch.
Stat(c, ok) ==
  /\ call[c].pc = "stat"
  /\ IF ok /\ files[LlmOutputCachePath(c)] # Absent
       THEN call' = [call EXCEPT ![c].pc = "readFile"]
       ELSE Resolve(c, ReturnsUndefined)
  /\ UNCHANGED <<cacheDir, traceDir, dirs, files>>
  /\ nonCacheFrame

\* Mutant of ReadFile: what deserialize throws reaches the caller of lookup.
ReadFileUncaught(c, ok) ==
  /\ call[c].pc = "readFile"
  /\ LET data == Deserialize(files[LlmOutputCachePath(c)])
     IN IF ok /\ data.ok
          THEN Resolve(c, ReturnsMessages(data.stored))
          ELSE IF ok THEN Resolve(c, Throws) ELSE Resolve(c, ReturnsUndefined)
  /\ UNCHANGED <<cacheDir, traceDir, dirs, files>>
  /\ nonCacheFrame

\* fs.readFile(llmOutputCachePath) settles and deserialize runs.
ReadFile(c, ok) ==
  /\ call[c].pc = "readFile"
  /\ LET data == Deserialize(files[LlmOutputCachePath(c)])
     IN IF ok /\ data.ok
          THEN Resolve(c, ReturnsMessages(data.stored))
          ELSE Resolve(c, ReturnsUndefined)
  /\ UNCHANGED <<cacheDir, traceDir, dirs, files>>
  /\ nonCacheFrame

\* The items a list input is made of, and the inputs hash is applied to.
ListItems == Messages \cup {StringInput(s) : s \in Texts} \cup {Unsupported}
HashInputs ==
  ListItems \cup {PromptValue(<<Message("human", "Hello")>>)}
            \cup {ListInput(items) : items \in UNION {[1..n -> ListItems] : n \in 0..MaxItems}}

\* hash(input) is applied: it returns the key, or serialize throws.
HashCall(c) ==
  /\ call[c].pc = "hash"
  /\ Resolve(c, IF Serialize(call[c].input).ok THEN ReturnsKey(Hash(call[c].input))
                                                ELSE Throws)
  /\ UNCHANGED <<cacheDir, traceDir, dirs, files>>
  /\ nonCacheFrame

\* No cache directory and no trace directory are configured: the model
\* provider gets a NoCacheNoTrace, and there are no record files and no
\* calls to follow.
NoCacheNoTrace ==
  /\ cacheDir = Undefined
  /\ traceDir = Undefined
  /\ dirs = {}
  /\ files = << >>
  /\ call = << >>

\* ------------------------------------------------------ TaskManager (mcp)

\* The diagnostics the editor may hold: a message and the source that
\* reported it.
Diagnostics ==
  {[message |-> "m1", source |-> "konveyor"],
   [message |-> "m2", source |-> "Konveyor"],
   [message |-> "m3", source |-> "ts"]}

ToLowerCase(source) == IF source = "Konveyor" THEN "konveyor" ELSE source

\* One object literal built by getDiagnostics(): the objects of the n-th call
\* are new objects, different from those of every other call.
FlatDiagnostic(n, d) == [object |-> n, diagnostic |-> d]

\* getDiagnostics(), called for the n-th time.
GetDiagnostics(n) == {FlatDiagnostic(n, d) : d \in diagnostics}

\* Array.prototype.includes: SameValueZero, for objects the same object.
Includes(list, o) == o \in list

\* What the components outside the task manager keep.
mcpFrame ==
  /\ NoFire
  /\ UNCHANGED <<supVars, lastOp, runVars, solVars, trigVars, cacheVars, toolVars, routerVars,
               orchVars>>

\* The language servers publish another set of diagnostics.
PublishDiagnostics(ds) ==
  /\ ds # diagnostics
  /\ diagnostics' = ds
  /\ UNCHANGED <<lastDiagnostics, getDiagnosticsCalls, tasksReturned>>
  /\ mcpFrame

\* getNewTasks()
GetNewTasks ==
  /\ getDiagnosticsCalls < MaxTaskCalls
  /\ LET currentDiagnostics == GetDiagnostics(getDiagnosticsCalls + 1)
     IN /\ tasksReturned' =
             {d \in currentDiagnostics : ~Includes(lastDiagnostics, d)}
        /\ lastDiagnostics' = currentDiagnostics
  /\ getDiagnosticsCalls' = getDiagnosticsCalls + 1
  /\ UNCHANGED diagnostics
  /\ mcpFrame

\* getCurrentAnalysisIssues(): init() takes the snapshot, then the konveyor
\* diagnostics of a second getDiagnostics() are returned.
GetCurrentAnalysisIssues ==
  /\ getDiagnosticsCalls + 1 < MaxTaskCalls
  /\ lastDiagnostics' = GetDiagnostics(getDiagnosticsCalls + 1)
  /\ tasksReturned' =
       {d \in GetDiagnostics(getDiagnosticsCalls + 2) :
          ToLowerCase(d.diagnostic.source) = "konveyor"}
  /\ getDiagnosticsCalls' = getDiagnosticsCalls + 2
  /\ UNCHANGED diagnostics
  /\ mcpFrame

\* ------------------------------------------- ToolResponseCache (agentic)

ToolNames == {"readFile", "searchFqn"}

\* The parameters a tool is called with: objects with string values.
ToolInputs ==
  {[file |-> "a.java"], [file |-> "b.java"], [tool |-> "a.java"]}

ToolResponses == {"r1", "r2"}

\* Object.keys(dataToHash).sort(): the array given to JSON.stringify as its
\* replacer.
DataToHashKeys == {"params", "tool"}

\* JSON.stringify(value, propertyList) of an object with string values: a
\* property list selects the keys that are written, in every object of the
\* value and not just in the outermost one. The text is represented by the
\* object it denotes.
StringifyObject(value, propertyList) ==
  [k \in (DOMAIN value) \cap propertyList |-> value[k]]

\* JSON.stringify(dataToHash, propertyList): "tool" and "params" are written
\* when the list names them, and params is written through the same list.
StringifyDataToHash(toolName, input, propertyList) ==
  [tool |-> IF "tool" \in propertyList THEN toolName ELSE Undefined,
   params |-> IF "params" \in propertyList
                THEN StringifyObject(input, propertyList) ELSE Undefined]

\* hashInput(toolName, input): 16 hex digits of the SHA-256 of the text,
\* taken as free of collisions, so that the digest is represented by the
\* text it was computed from.
HashInput(toolName, input) ==
  StringifyDataToHash(toolName, input, DataToHashKeys)

\* getCachePath(toolName, input): <cacheDir>/toolCalls/<toolName>/<hash>.json
GetCachePath(toolName, input) == <<toolName, HashInput(toolName, input)>>

\* A file whose content is not a JSON text: a writeFile that failed midway.
TornFile == [torn |-> TRUE]

\* What the components outside the tool cache keep.
toolFrame ==
  /\ NoFire
  /\ UNCHANGED <<supVars, lastOp, runVars, solVars, trigVars, cacheVars, mcpVars, routerVars,
               orchVars>>

\* What lookup returns for the file at cachePath: nothing without a cache
\* directory, when stat or JSON.parse throws, or when the entry names another
\* tool (input and response are set in every entry that update writes).
LookupResult(toolName, cachePath) ==
  IF toolCacheDir = Undefined THEN Undefined
  ELSE IF cachePath \notin DOMAIN toolFiles THEN Undefined
  ELSE IF toolFiles[cachePath] = TornFile THEN Undefined
  ELSE IF toolFiles[cachePath].toolName = toolName
    THEN toolFiles[cachePath].response
    ELSE Undefined

\* lookup(toolName, input)
ToolLookup(toolName, input) ==
  /\ toolCall' = [op |-> "lookup", toolName |-> toolName, input |-> input,
                  returned |-> LookupResult(toolName, GetCachePath(toolName, input))]
  /\ UNCHANGED <<toolCacheDir, toolFiles>>
  /\ toolFrame

\* update(toolName, input, response): the entry is written to the cache path
\* and the path is returned; when mkdir or writeFile throws, undefined is
\* returned and the file is as the failed write left it.
ToolUpdate(toolName, input, response, outcome) ==
  LET cachePath == GetCachePath(toolName, input)
      cacheEntry == [toolName |-> toolName, input |-> input, response |-> response]
      Written(content) ==
        [p \in (DOMAIN toolFiles) \cup {cachePath} |->
           IF p = cachePath THEN content ELSE toolFiles[p]]
  IN /\ toolCacheDir = Undefined => outcome = "none"
     /\ toolCacheDir # Undefined => outcome # "none"
     /\ toolFiles' = CASE outcome = "written" -> Written(cacheEntry)
                       [] outcome = "torn" -> Written(TornFile)
                       [] OTHER -> toolFiles
     /\ toolCall' = [op |-> "update", toolName |-> toolName, input |-> input,
                     returned |-> IF outcome = "written" THEN cachePath ELSE Undefined]
     /\ UNCHANGED toolCacheDir
     /\ toolFrame

\* new ToolResponseCache(logger, cacheDir)
ToolCacheConstructed(dir) ==
  /\ toolCacheDir = dir
  /\ toolFiles = << >>
  /\ toolCall = [op |-> "none"]

\* ------------------------------------------ AnalysisIssueFix (agentic)

\* The uri of the i-th file with incidents.
FileUri(i) ==
  CASE i = 1 -> "file1" [] i = 2 -> "file2" [] i = 3 -> "file3"
    [] i = 4 -> "file4" [] OTHER -> "file5"

\* incidentsByUris for n files: one entry per uri.
IncidentsByUris(n) == [i \in 1..n |-> FileUri(i)]

\* What the components outside the analysis-fix nodes keep.
routerFrame ==
  /\ NoFire
  /\ UNCHANGED <<supVars, lastOp, runVars, solVars, trigVars, cacheVars, mcpVars, toolVars,
               orchVars>>

\* What no node has written.
NodeIdle == [node |-> "none", read |-> "none", error |-> FALSE,
             modifiedFile |-> FALSE, accumulated |-> FALSE]

\* Mutant of CurrentIdxAfter: the index advances only when the file was read.
CurrentIdxAfterReadOnly(currentIdx, entered, readOk) ==
  IF entered /\ readOk THEN currentIdx + 1 ELSE currentIdx

\* nextState.currentIdx: the assignment follows the try statement, so that it
\* is made whether the file was read or not.
CurrentIdxAfter(currentIdx, entered, readOk) ==
  IF entered THEN currentIdx + 1 ELSE currentIdx

\* fixAnalysisIssueRouter(state). read is what fsPromises.readFile does when
\* the router gets to it: it throws ("fail"), or answers an empty or a
\* non-empty text; "none" when the router does not read.
FixAnalysisIssueRouter(read) ==
  LET state == routerState
      entered == state.currentIdx < Len(state.incidentsByUris)
      nextEntry == state.incidentsByUris[state.currentIdx + 1]
      readOk == read \in {"empty", "text"}
      cachedContent == IF nextEntry \in fsCache THEN "cached" ELSE Undefined
      codeSnip == state.response = "code"
      modified == state.response # Undefined /\ codeSnip /\ state.fileUri # Undefined
      last == state.currentIdx = Len(state.incidentsByUris)
  IN /\ routerCalls < MaxRouterCalls
     /\ entered <=> read # "none"
     /\ routerState' =
          [state EXCEPT
             !.allResponses = IF state.response # Undefined
                                THEN <<state.response>> ELSE << >>,
             !.fileUri = IF entered /\ readOk THEN nextEntry ELSE Undefined,
             !.fileContent = IF ~entered THEN Undefined
                             ELSE IF read = "text" THEN "text"
                             ELSE IF read = "empty" THEN ""
                             ELSE cachedContent,
             !.incidentsDescription =
                IF entered /\ readOk THEN "incidents" ELSE Undefined,
             !.currentIdx = CurrentIdxAfter(state.currentIdx, entered, readOk),
             !.response = Undefined,
             !.previousResponse =
                IF last THEN "additionalInformation" ELSE state.previousResponse]
     /\ fsCache' = IF modified THEN fsCache \cup {state.fileUri} ELSE fsCache
     /\ routerCalls' = routerCalls + 1
     /\ routerOut' = [node |-> "router", read |-> read,
                      error |-> entered /\ ~readOk,
                      modifiedFile |-> modified, accumulated |-> last]
     /\ routerFrame

\* fixAnalysisIssue(state), run on what the router returned: without a file
\* uri, a file content or an incidents description it returns no response;
\* otherwise the model answers with code, with text only, or not at all.
FixAnalysisIssue(reply) ==
  LET state == routerState
      missing == \/ state.fileUri = Undefined
                 \/ state.fileContent \in {Undefined, ""}
                 \/ state.incidentsDescription = Undefined
  IN /\ routerOut.node = "router"
     /\ missing => reply = Undefined
     /\ routerState' = [state EXCEPT !.response = reply]
     /\ routerOut' = [NodeIdle EXCEPT !.node = "fix"]
     /\ UNCHANGED <<fsCache, routerCalls>>
     /\ routerFrame

\* The graph is started on n files with incidents.
RouterStarts(n) ==
  /\ routerState = [incidentsByUris |-> IncidentsByUris(n), currentIdx |-> 0,
                    fileUri |-> Undefined, fileContent |-> Undefined,
                    incidentsDescription |-> Undefined, response |-> Undefined,
                    allResponses |-> << >>, previousResponse |-> Undefined]
  /\ fsCache = {}
  /\ routerCalls = 0
  /\ routerOut = NodeIdle

\* ---------------------------------------- DiagnosticsIssueFix (agentic)

\* An array-valued field that may be undefined. An array, empty or not, is
\* truthy; undefined is falsy.
UndefinedList == [defined |-> FALSE, items |-> << >>]
List(items) == [defined |-> TRUE, items |-> items]
Truthy(list) == list.defined

\* Array.prototype.pop: the last element (undefined for an empty array) and
\* the array it leaves.
Popped(items) == IF Len(items) = 0 THEN Undefined ELSE items[Len(items)]
AfterPop(items) == IF Len(items) = 0 THEN items ELSE SubSeq(items, 1, Len(items) - 1)

AgentNames == {"generalFix", "otherAgent"}

\* The lists of at most n elements of S.
ListsOf(S, n) == UNION {[1..k -> S] : k \in 0..n}

\* The tasks of the IDE grouped by uri: one entry per uri.
TaskEntry(i) == IF i = 1 THEN "tasksOfFile1" ELSE IF i = 2 THEN "tasksOfFile2"
                ELSE "tasksOfFile3"
GroupedTasks(n) == [i \in 1..n |-> TaskEntry(i)]

\* What the IDE may answer: nothing usable, no, yes without tasks, or yes
\* with the tasks of n files.
IdeResponses ==
  {[valid |-> FALSE, yesNo |-> FALSE, tasks |-> UndefinedList],
   [valid |-> TRUE, yesNo |-> FALSE, tasks |-> UndefinedList],
   [valid |-> TRUE, yesNo |-> TRUE, tasks |-> UndefinedList]}
  \cup {[valid |-> TRUE, yesNo |-> yn, tasks |-> List(GroupedTasks(n))] :
          yn \in BOOLEAN, n \in 0..MaxTasks}

\* What the components outside the diagnostics nodes keep.
orchFrame ==
  /\ NoFire
  /\ UNCHANGED <<supVars, lastOp, runVars, solVars, trigVars, cacheVars, mcpVars, toolVars,
                 routerVars>>

NoResponse == [valid |-> FALSE, yesNo |-> FALSE, tasks |-> UndefinedList]
NotWaiting == [pc |-> "idle", id |-> 0, settled |-> "none", response |-> NoResponse]

\* "when there is nothing to work on, wait for diagnostics information": the
\* condition of the first branch of orchestratePlanAndExecution.
NothingToWorkOn(state) ==
  /\ ~Truthy(state.inputDiagnosticsTasks)
  /\ state.inputSummarizedAdditionalInfo = Undefined
  /\ ~Truthy(state.outputNominatedAgents) \/ Len(state.outputNominatedAgents.items) < 1

\* The id of the request made by the n-th invocation: req-tasks-<Date.now()>.
RequestId(n) == n

\* The state after "if there is already an agent we sent work to".
AgentOutputProcessed(state) ==
  IF state.currentAgent = Undefined THEN state
  ELSE [state EXCEPT
          !.inputInstructionsForGeneralFix =
             IF state.currentAgent = "generalFix" THEN Undefined ELSE @,
          !.currentAgent = Undefined,
          !.currentTask = Undefined]

\* The dispatch and plan branches: what the orchestrator returns when it does
\* not wait, and the branch it took.
Dispatched(state) ==
  LET nextState == [AgentOutputProcessed(state) EXCEPT !.shouldEnd = FALSE]
      agents == state.outputNominatedAgents
      tasks == state.inputDiagnosticsTasks
      name == Popped(agents.items)
  IN IF Truthy(agents) /\ Len(agents.items) > 0
       THEN [branch |-> "agent",
             state |-> [nextState EXCEPT
                          !.inputInstructionsForGeneralFix =
                             IF name = "generalFix" THEN "instructions" ELSE @,
                          !.currentAgent =
                             IF name = "generalFix" THEN name ELSE Undefined,
                          !.outputNominatedAgents = List(AfterPop(agents.items))]]
     ELSE IF state.inputSummarizedAdditionalInfo # Undefined
       THEN [branch |-> "info",
             state |-> [nextState EXCEPT
                          !.currentTask = "additionalInfo",
                          !.plannerInputTasks = "additionalInfo",
                          !.inputSummarizedAdditionalInfo = Undefined]]
     ELSE IF Truthy(tasks)
       THEN [branch |-> "task",
             state |-> [nextState EXCEPT
                          !.currentTask = Popped(tasks.items),
                          !.plannerInputTasks = Popped(tasks.items),
                          !.inputDiagnosticsTasks = List(AfterPop(tasks.items))]]
     ELSE [branch |-> "none", state |-> nextState]

\* orchestratePlanAndExecution(state), up to its return or to its await. The
\* graph calls the node when it starts and after a planner or an agent that
\* the node sent the work to, never once shouldEnd is set.
OrchestratePlanAndExecution ==
  LET state == orchState
  IN /\ orchCalls < MaxOrchCalls
     /\ orchWait = NotWaiting
     /\ ~state.shouldEnd
     /\ orchOut.branch \in {"none", "agent", "planned"}
     /\ orchCalls' = orchCalls + 1
     /\ IF NothingToWorkOn(state)
          THEN IF ~state.enableDiagnosticsFixes
                 THEN /\ orchState' = [state EXCEPT !.shouldEnd = TRUE]
                      /\ orchOut' = [branch |-> "end", asked |-> FALSE]
                      /\ UNCHANGED <<diagnosticsPromises, orchWait>>
                 ELSE /\ diagnosticsPromises' =
                           diagnosticsPromises \cup {RequestId(orchCalls + 1)}
                      /\ orchWait' = [pc |-> "waiting", id |-> RequestId(orchCalls + 1),
                                      settled |-> "pending", response |-> NoResponse]
                      /\ orchOut' = [branch |-> "wait", asked |-> TRUE]
                      /\ UNCHANGED orchState
          ELSE /\ orchState' = Dispatched(state).state
               /\ orchOut' = [branch |-> Dispatched(state).branch, asked |-> FALSE]
               /\ UNCHANGED <<diagnosticsPromises, orchWait>>
     /\ orchFrame

\* resolveDiagnosticsPromise(response) for the pending request: reject and
\* then resolve are called for an answer that is not valid, the first of the
\* two settles the promise.
ResolveDiagnosticsPromise(response) ==
  /\ orchWait # NotWaiting
  /\ orchWait.id \in diagnosticsPromises
  /\ orchWait.settled = "pending"
  /\ orchWait' = [orchWait EXCEPT
                    !.settled = IF response.valid THEN "resolved" ELSE "rejected",
                    !.response = response]
  /\ UNCHANGED <<orchState, diagnosticsPromises, orchCalls, orchOut>>
  /\ orchFrame

\* The await of the orchestrator returns or throws: try, catch and finally,
\* and the return of nextState.
WaitReturns ==
  LET state == orchState
      response == orchWait.response
      accepted == /\ orchWait.settled = "resolved"
                  /\ Truthy(response.tasks)
                  /\ response.yesNo
      newTasks == response.tasks.items
  IN /\ orchWait # NotWaiting
     /\ orchWait.settled # "pending"
     /\ orchState' =
          IF accepted
            THEN [state EXCEPT !.shouldEnd = Len(newTasks) < 1,
                               !.inputDiagnosticsTasks = List(newTasks)]
            ELSE [state EXCEPT !.shouldEnd = TRUE]
     /\ diagnosticsPromises' = diagnosticsPromises \ {orchWait.id}
     /\ orchWait' = NotWaiting
     /\ orchOut' = [branch |-> IF orchState'.shouldEnd THEN "end" ELSE "none", asked |-> FALSE]
     /\ UNCHANGED orchCalls
     /\ orchFrame

\* planFixes(state), run after the orchestrator planned a task: no agents
\* without planner tasks or without an answer of the model, else the agents
\* read from the answer.
PlanFixes(agents) ==
  /\ orchOut.branch \in {"info", "task"}
  /\ orchState.plannerInputTasks = Undefined => agents = << >>
  /\ orchState' = [orchState EXCEPT !.outputNominatedAgents = List(agents)]
  /\ orchOut' = [branch |-> "planned", asked |-> FALSE]
  /\ UNCHANGED <<diagnosticsPromises, orchWait, orchCalls>>
  /\ orchFrame

\* The diagnostics graph is started: nothing from the IDE or the planner yet.
OrchestratorStarts(enabled, info) ==
  /\ orchState = [inputDiagnosticsTasks |-> UndefinedList,
                  inputSummarizedAdditionalInfo |-> info,
                  outputNominatedAgents |-> UndefinedList,
                  currentAgent |-> Undefined, currentTask |-> Undefined,
                  plannerInputTasks |-> Undefined,
                  inputInstructionsForGeneralFix |-> Undefined,
                  shouldEnd |-> FALSE, enableDiagnosticsFixes |-> enabled]
  /\ diagnosticsPromises = {}
  /\ orchWait = NotWaiting
  /\ orchCalls = 0
  /\ orchOut = [branch |-> "none", asked |-> FALSE]

\* No workflow was run yet: the graphs have no state.
NotStarted == "notStarted"

RouterNotStarted ==
  /\ routerState = NotStarted
  /\ fsCache = {}
  /\ routerCalls = 0
  /\ routerOut = NotStarted

OrchestratorNotStarted ==
  /\ orchState = NotStarted
  /\ diagnosticsPromises = {}
  /\ orchWait = NotStarted
  /\ orchCalls = 0
  /\ orchOut = NotStarted

\* new TaskManager(workspaceDir): the snapshot is the empty list.
TaskManagerConstructed ==
  /\ diagnostics = {}
  /\ lastDiagnostics = {}
  /\ getDiagnosticsCalls = 0
  /\ tasksReturned = {}

\* The agents and tools as their constructors leave them.
AgentsConstructed ==
  /\ TaskManagerConstructed
  /\ ToolCacheConstructed(Undefined)
  /\ RouterNotStarted
  /\ OrchestratorNotStarted

\* The trigger as its constructor leaves it.
TriggerConstructed ==
  /\ notifyFileChangesQueue = [p \in Paths |-> NoChange]
  /\ analysisFileChangesQueue = {}
  /\ notifyTimer = Expired
  /\ analysisTimer = Expired
  /\ notifyTimeout = 0
  /\ analysisTimeout = 0
  /\ notifyRunning = Idle
  /\ analysisRunning = Idle
  /\ notifyDelay = NotifyInitialDelay
  /\ analysisDelay = AnalysisInitialDelay
  /\ notifyFlights = << >>
  /\ analysisFlights = << >>
  /\ version = [p \in Paths |-> 0]
  /\ flushSeen = FALSE
  /\ notifyCalls = 0
  /\ analysisCalls = 0
  /\ lateEvent = FALSE
  /\ lastChange = NoReport

\* No solution was asked for yet.
NoSolution ==
  /\ solutionState = "none"
  /\ solutionRuns = 0
  /\ isFetchingSolution = FALSE
  /\ chatMessages = << >>
  /\ solutionFired = << >>

ClientConstructed ==
  /\ serverState = "initial"
  /\ isStartingServer = FALSE
  /\ isAnalyzing = FALSE
  /\ analyzerRpcServer = 0
  /\ rpcConnection = 0
  /\ proc = [i \in Procs |-> "none"]
  /\ processStarted = [i \in Procs |-> FALSE]
  /\ startPc = [i \in Procs |-> "idle"]
  /\ stopPc = "idle"
  /\ stopFromRunning = FALSE
  /\ stopProc = 0
  /\ stopDone = FALSE
  /\ stopRpc = "none"
  /\ asked = {}
  /\ directRuns = 0
  /\ abandoned = 0
  /\ fired = << >>
  /\ lastOp = "constructed"
  /\ NoSolution
  /\ enableHotRerun = TRUE
  /\ ignoredPaths = {}
  /\ TriggerConstructed
  /\ NoCacheNoTrace

Init ==
  /\ ClientConstructed
  /\ AgentsConstructed

Next ==
  \/ \E i \in Procs, ls \in LabelSelectors, n \in RulesetPathCounts :
        Start(i, CanAnalyze(ls, n))
  \/ \E i \in Procs, ok \in BOOLEAN : TransportConnected(i, ok)
  \/ \E i \in Procs, ok \in BOOLEAN : ServerReportsReady(i, ok)
  \/ \E i \in Procs : ReadyTimeout(i)
  \/ \E i \in Procs, how \in ExitKinds : ProcessExit(i, how)
  \/ Shutdown
  \/ \E ok \in BOOLEAN : ShutdownReply(ok)
  \/ Stop
  \/ StopTimeout
  \/ \E c \in BOOLEAN : RunAnalysis(c)
  \/ \E o \in AnalyzeOutcomes : AnalyzeResponse(o)
  \/ AnalyzeCancelled
  \/ AbandonedResponse

Spec == Init /\ [][Next]_vars

\* The supervisor after start() completed for process 1 (the state is left
\* at connectionEstablished), and the same after a second start() timed out
\* and its process reported ready late (the state is running).
ServerStarted(late) ==
  /\ serverState = IF late THEN "running" ELSE "connectionEstablished"
  /\ isStartingServer = FALSE
  /\ analyzerRpcServer = 1
  /\ rpcConnection = 1
  /\ proc = [i \in Procs |-> IF i = 1 \/ (late /\ i = 2) THEN "alive" ELSE "none"]
  /\ processStarted = [i \in Procs |-> i = 1 \/ (late /\ i = 2)]
  /\ startPc = [i \in Procs |-> IF i = 1 \/ (late /\ i = 2) THEN "returned" ELSE "idle"]
  /\ stopPc = "idle"
  /\ stopFromRunning = FALSE
  /\ stopProc = 0
  /\ stopDone = FALSE
  /\ stopRpc = "none"
  /\ asked = {}
  /\ isAnalyzing = FALSE
  /\ directRuns = 0
  /\ abandoned = 0

\* The trigger is studied on a started supervisor that stays as it is.
InitTrigger ==
  /\ \E late \in BOOLEAN : ServerStarted(late)
  /\ fired = << >>
  /\ lastOp = "constructed"
  /\ NoSolution
  /\ enableHotRerun \in BOOLEAN
  /\ ignoredPaths \in {{}, {"B"}}
  /\ TriggerConstructed
  /\ NoCacheNoTrace
  /\ AgentsConstructed

NextTrigger ==
  \/ \E u \in UriObjs, saved \in BOOLEAN : NotifyFileChanges(u, saved)
  \/ NotifyTimerFires
  \/ \E k \in 1..MaxFlights, ok \in BOOLEAN : NotifyFlushDone(k, ok)
  \/ \E c \in BOOLEAN : AnalysisTimerFires(c)
  \/ \E k \in 1..MaxFlights, o \in AnalyzeOutcomes \cup {"analysisCancelled"} :
        AnalysisFlushDone(k, o)
  \/ \E c \in BOOLEAN : RunAnalysis(c)
  \/ \E o \in AnalyzeOutcomes : AnalyzeResponse(o)
  \/ AnalyzeCancelled
  \/ AbandonedResponse

SpecTrigger == InitTrigger /\ [][NextTrigger]_vars

\* The trigger alone: file changes, timers and flushes, without direct runs.
NextQueue ==
  \/ \E u \in UriObjs, saved \in BOOLEAN : NotifyFileChanges(u, saved)
  \/ NotifyTimerFires
  \/ \E k \in 1..MaxFlights, ok \in BOOLEAN : NotifyFlushDone(k, ok)
  \/ \E c \in BOOLEAN : AnalysisTimerFires(c)
  \/ \E k \in 1..MaxFlights, o \in AnalyzeOutcomes \cup {"analysisCancelled"} :
        AnalysisFlushDone(k, o)

SpecQueue == InitTrigger /\ [][NextQueue]_vars

\* The workspace exclude settings change: isUriIgnored answers from the new
\* ignore list from now on; the queues are not touched.
IgnoreSettingsChange(paths) ==
  /\ paths # ignoredPaths
  /\ ignoredPaths' = paths
  /\ supFrame
  /\ UNCHANGED <<runVars, solVars, cacheVars, agentVars, enableHotRerun, queueVars, notifyVars, analysisVars,
                 histVars>>

IgnoreLists == {{}, {"B"}}

\* The trigger alone, with exclude settings that change under it.
NextIgnore ==
  \/ NextQueue
  \/ \E paths \in IgnoreLists : IgnoreSettingsChange(paths)

SpecIgnore == InitTrigger /\ [][NextIgnore]_vars

\* An armed timer fires, the user does not cancel every run, and the peer
\* answers every request and does not reject for ever.
FairDispatch ==
  /\ WF_vars(NotifyTimerFires)
  /\ WF_vars(AnalysisTimerFires(FALSE))
  /\ SF_vars(\E k \in 1..MaxFlights : NotifyFlushDone(k, TRUE))
  /\ SF_vars(\E k \in 1..MaxFlights : AnalysisFlushDone(k, "analysisLoaded"))

SpecRetry == SpecQueue /\ FairDispatch

DisposeCall == [path |-> "dispose", saved |-> FALSE]

\* Mutant of Dispose: only analysisBackoff is disposed.
DisposeAnalysisOnly ==
  /\ analysisTimer' = Expired
  /\ analysisTimeout' = 0
  /\ lastChange' = DisposeCall
  /\ fired' = << >>
  /\ UNCHANGED <<serverState, isStartingServer, supVars, lastOp>>
  /\ UNCHANGED <<runVars, configVars, solVars, cacheVars, agentVars, queueVars, histVars,
                 notifyVars, analysisRunning, analysisDelay, analysisFlights>>

\* dispose(): both schedulers cancel their pending timer.  A callback that
\* is awaiting its call is not interrupted.
Dispose ==
  /\ analysisTimer' = Expired
  /\ analysisTimeout' = 0
  /\ notifyTimer' = Expired
  /\ notifyTimeout' = 0
  /\ lastChange' = DisposeCall
  /\ fired' = << >>
  /\ UNCHANGED <<serverState, isStartingServer, supVars, lastOp>>
  /\ UNCHANGED <<runVars, configVars, solVars, cacheVars, agentVars, queueVars, histVars,
                 notifyRunning, notifyDelay, notifyFlights,
                 analysisRunning, analysisDelay, analysisFlights>>

\* Every delay of the two schedulers is a multiple of the shortest one.
TickMs == NotifyInitialDelay

\* TickMs pass while a timer is pending and none is due: a due timer fires
\* before more time passes.
Tick ==
  /\ notifyTimer \/ analysisTimer
  /\ notifyTimer => notifyTimeout >= TickMs
  /\ analysisTimer => analysisTimeout >= TickMs
  /\ notifyTimeout' = IF notifyTimer THEN notifyTimeout - TickMs ELSE notifyTimeout
  /\ analysisTimeout' = IF analysisTimer THEN analysisTimeout - TickMs ELSE analysisTimeout
  /\ supFrame
  /\ UNCHANGED <<runVars, configVars, solVars, cacheVars, agentVars, queueVars, histVars,
                 notifyTimer, notifyRunning, notifyDelay, notifyFlights,
                 analysisTimer, analysisRunning, analysisDelay, analysisFlights>>

\* The trigger with the clock: a timer fires when its delay has passed.
NextTimed ==
  \/ \E u \in UriObjs, saved \in BOOLEAN : NotifyFileChanges(u, saved)
  \/ notifyTimeout = 0 /\ NotifyTimerFires
  \/ \E k \in 1..MaxFlights, ok \in BOOLEAN : NotifyFlushDone(k, ok)
  \/ analysisTimeout = 0 /\ \E c \in BOOLEAN : AnalysisTimerFires(c)
  \/ \E k \in 1..MaxFlights, o \in AnalyzeOutcomes \cup {"analysisCancelled"} :
        AnalysisFlushDone(k, o)
  \/ Tick

SpecTimed == InitTrigger /\ [][NextTimed]_vars

\* The trigger with the clock, disposed at any moment and used after that.
NextScheduler ==
  \/ NextTimed
  \/ Dispose

SpecScheduler == InitTrigger /\ [][NextScheduler]_vars

\* The task manager of the MCP server, with diagnostics that change.
NextTasks ==
  \/ \E ds \in SUBSET Diagnostics : PublishDiagnostics(ds)
  \/ GetNewTasks
  \/ GetCurrentAnalysisIssues

SpecTasks == Init /\ [][NextTasks]_vars

\* The tool response cache, with and without a cache directory.
InitToolCache ==
  /\ ClientConstructed
  /\ TaskManagerConstructed
  /\ \E dir \in {Undefined, "kai-cache"} : ToolCacheConstructed(dir)
  /\ RouterNotStarted
  /\ OrchestratorNotStarted

NextToolCache ==
  \/ \E t \in ToolNames, a \in ToolInputs : ToolLookup(t, a)
  \/ \E t \in ToolNames, a \in ToolInputs, r \in ToolResponses,
        outcome \in {"none", "written", "torn", "failed"} :
       ToolUpdate(t, a, r, outcome)

SpecToolCache == InitToolCache /\ [][NextToolCache]_vars

\* The analysis-fix router and its fix node, on a list of files.
InitRouter ==
  /\ ClientConstructed
  /\ TaskManagerConstructed
  /\ ToolCacheConstructed(Undefined)
  /\ \E n \in 0..MaxIncidentFiles : RouterStarts(n)
  /\ OrchestratorNotStarted

NextRouter ==
  \/ \E read \in {"none", "fail", "empty", "text"} : FixAnalysisIssueRouter(read)
  \/ \E reply \in {Undefined, "code", "text"} : FixAnalysisIssue(reply)

SpecRouter == InitRouter /\ [][NextRouter]_vars

\* The diagnostics orchestrator with its planner and the IDE.
InitOrchestrator ==
  /\ ClientConstructed
  /\ TaskManagerConstructed
  /\ ToolCacheConstructed(Undefined)
  /\ RouterNotStarted
  /\ \E enabled \in BOOLEAN, info \in {Undefined, "info"} :
       OrchestratorStarts(enabled, info)

NextOrchestrator ==
  \/ OrchestratePlanAndExecution
  \/ \E response \in IdeResponses : ResolveDiagnosticsPromise(response)
  \/ WaitReturns
  \/ \E agents \in ListsOf(AgentNames, MaxAgents) : PlanFixes(agents)

SpecOrchestrator == InitOrchestrator /\ [][NextOrchestrator]_vars

\* The requests to a started server (runAnalysis, getSolution), while the
\* server may be shut down, stopped or exit under them.
InitRequests ==
  /\ \E late \in BOOLEAN : ServerStarted(late)
  /\ fired = << >>
  /\ lastOp = "constructed"
  /\ NoSolution
  /\ enableHotRerun = TRUE
  /\ ignoredPaths = {}
  /\ TriggerConstructed
  /\ NoCacheNoTrace
  /\ AgentsConstructed

NextRequests ==
  \/ \E c \in BOOLEAN : RunAnalysis(c)
  \/ \E o \in AnalyzeOutcomes : AnalyzeResponse(o)
  \/ AnalyzeCancelled
  \/ AbandonedResponse
  \/ GetSolution
  \/ \E ok \in BOOLEAN : SolutionResponse(ok)
  \/ MyProgress
  \/ Shutdown
  \/ \E ok \in BOOLEAN : ShutdownReply(ok)
  \/ Stop
  \/ StopTimeout
  \/ \E i \in Procs, how \in ExitKinds : ProcessExit(i, how)

SpecRequests == InitRequests /\ [][NextRequests]_vars

\* The cache and the tracer of one model provider: either no cache directory
\* is set, or the cache and the tracer share one directory, which may hold
\* an output record that some other program left there.
InitCache ==
  /\ \E late \in BOOLEAN : ServerStarted(late) /\ ~late
  /\ fired = << >>
  /\ lastOp = "constructed"
  /\ NoSolution
  /\ enableHotRerun = TRUE
  /\ ignoredPaths = {}
  /\ TriggerConstructed
  /\ cacheDir \in {Undefined, "cacheDir"}
  /\ traceDir = IF cacheDir = Undefined THEN "traceDir" ELSE cacheDir
  /\ dirs = {}
  /\ call = [c \in Calls |-> NoCall]
  /\ AgentsConstructed
  /\ \E foreign \in {Absent, NotAList} :
       /\ cacheDir = Undefined => foreign = Absent
       /\ files = [p \in BasePaths \X RecordNames |->
                     IF p = <<BasePath("cacheDir", "test", StringInput("Hello")), "output.json">>
                       THEN foreign ELSE Absent]

NextCache ==
  \/ \E c \in Calls, input \in CacheInputs, cacheKey \in CacheKeys, value \in CacheValues :
       \/ Update(c, input, cacheKey, value)
       \/ Trace(c, input, cacheKey, value)
  \/ \E c \in Calls, input \in CacheInputs, cacheKey \in CacheKeys :
       Lookup(c, input, cacheKey)
  \/ \E c \in Calls, ok \in BOOLEAN :
       \/ Mkdir(c, ok)
       \/ WriteInput(c, ok)
       \/ OpenOutput(c, ok)
       \/ WriteOutput(c, ok)
       \/ Stat(c, ok)
       \/ ReadFile(c, ok)

SpecCache == InitCache /\ [][NextCache]_vars

\* hash applied to every pair of inputs.
InitHash ==
  /\ \E late \in BOOLEAN : ServerStarted(late) /\ ~late
  /\ fired = << >>
  /\ lastOp = "constructed"
  /\ NoSolution
  /\ enableHotRerun = TRUE
  /\ ignoredPaths = {}
  /\ TriggerConstructed
  /\ cacheDir = "cacheDir"
  /\ traceDir = "traceDir"
  /\ dirs = {}
  /\ files = [p \in BasePaths \X RecordNames |-> Absent]
  /\ AgentsConstructed
  /\ call \in [Calls -> {[NoCall EXCEPT !.op = "hash", !.input = i, !.pc = "hash"] :
                            i \in HashInputs}]

NextHash == \E c \in Calls : HashCall(c)

SpecHash == InitHash /\ [][NextHash]_vars

\* ------------------------------------------------------------------ claims

\* C4: when the process reports ready and the connection is set up, start()
\* has driven the server state through establishingConnection,
\* connectionEstablished and running in that order, and the state is running
\* when start() completes.
C4_StartEndsRunning ==
  lastOp = "startResolved" =>
    /\ serverState = "running"
    /\ fired = <<"establishingConnection", "connectionEstablished", "running">>

\* A step of the model that is a call of stop().
StopCallStep ==
  /\ stopPc = "idle"
  /\ lastOp' \in {"stopAwaitsShutdown", "stopWaiting", "stopResolved"}

\* C5: runAnalysis called while the server state is not running, or while
\* there is no rpc connection, sends no Analyze request, does not set
\* isAnalyzing and leaves the server state as it is.
C5_RunAnalysisSkippedWhenNotRunning ==
  [][ (serverState # "running" \/ rpcConnection = 0) =>
        /\ directRuns' + abandoned' <= directRuns + abandoned
        /\ isAnalyzing' => isAnalyzing
        /\ lastOp' \in {"runAnalysisSkipped", "runAnalysisCancelledEarly", "analyzeSent"} =>
             /\ lastOp' = "runAnalysisSkipped"
             /\ UNCHANGED <<serverState, isAnalyzing, directRuns, abandoned>> ]_vars

\* C5 witness: runAnalysis was just refused although a connection exists,
\* because start() left the server state at connectionEstablished.
C5_Witness ==
  /\ lastOp = "runAnalysisSkipped"
  /\ serverState = "connectionEstablished"
  /\ rpcConnection # 0
  /\ Alive(rpcConnection)

\* C6: when the readiness line does not appear in time, start() fails, the
\* state is startFailed and no live process is left that the supervisor holds
\* no handle to.
C6_TimeoutLeavesNoOrphan ==
  lastOp = "startTimedOut" =>
    /\ serverState = "startFailed"
    /\ \A i \in Procs : proc[i] = "alive" => analyzerRpcServer = i

\* C7: once stop() has resolved, no start() was called after it, and every
\* process has ended and every pending start() has returned, the server state
\* is stopped.
C7_StopEndsStopped ==
  ( /\ stopDone
    /\ \A i \in Procs : ~Alive(i) /\ startPc[i] \in {"idle", "returned"} )
  => serverState = "stopped"

\* C8: stop() called while running or connectionEstablished, with a
\* connection, sends analysis_engine.Stop while the connection is still open.
C8_StopSendsStopRequest ==
  [][ ( /\ StopCallStep
        /\ serverState \in {"running", "connectionEstablished"}
        /\ rpcConnection # 0 )
      => (stopRpc' = "stop" /\ rpcConnection' = rpcConnection) ]_vars

\* C9: when the 5 s timer of stop() fires while no start() is in progress,
\* stop() kills the process and resolves with no handle, no process left
\* alive and unsignalled, and the state stopped.
C9_StopTimeoutLeavesNothingAlive ==
  (lastOp = "stopTimedOut" /\ \A i \in Procs : startPc[i] \in {"idle", "returned"}) =>
    /\ analyzerRpcServer = 0
    /\ serverState = "stopped"
    /\ \A i \in Procs : proc[i] # "alive"

\* C10: stop() called in state running on a started process, where every
\* process that was asked to shut down has exited: when stop() resolves the
\* state is stopped, the connection reference is null and the process has
\* exited.
C10_StopOfRunningServer ==
  ( /\ lastOp \in {"stopResolved", "stopTimedOut"}
    /\ stopFromRunning
    /\ stopProc # 0
    /\ asked = {} )
  => /\ serverState = "stopped"
     /\ rpcConnection = 0
     /\ proc[stopProc] \in {"exited", "signalled"}

\* C11: stop() called when there is no process handle and no connection (after
\* a completed stop(), or before any start()) sends no request, signals no
\* process and resolves with the state stopped.
C11_StopIsIdempotent ==
  [][ (StopCallStep /\ analyzerRpcServer = 0 /\ rpcConnection = 0) =>
        /\ lastOp' = "stopResolved"
        /\ serverState' = "stopped"
        /\ analyzerRpcServer' = 0 /\ rpcConnection' = 0
        /\ UNCHANGED <<proc, stopRpc, asked>> ]_vars

\* C11 witness: a process was started and has exited, and a stop() that found
\* no handle has just resolved.
C11_Witness ==
  /\ lastOp = "stopResolved"
  /\ stopProc = 0
  /\ serverState = "stopped"
  /\ \E i \in Procs : processStarted[i] /\ proc[i] = "exited"

\* C12: start() called while the server is starting, running or stopping
\* spawns no process, creates no transport and changes no state.
C12_StartRefusedUnlessStopped ==
  [][ (lastOp' = "startCalled" /\ serverState \in {"starting", "running", "stopping"}) =>
        UNCHANGED <<serverState, isStartingServer, startPc, proc>> ]_vars

\* C13: start() without a valid configuration spawns nothing, does not enter
\* starting and leaves serverState and isStartingServer as they are.
C13_StartWithoutConfigIsNoOp ==
  [][ lastOp' = "startNoConfig" =>
        UNCHANGED <<serverState, isStartingServer, startPc, proc, handleVars>> ]_vars

\* C13 witness: start() was just refused for its configuration on a server
\* that runs.
C13_Witness ==
  /\ lastOp = "startNoConfig"
  /\ serverState = "running"
  /\ \E i \in Procs : Alive(i)

\* C14: at most one spawned process is alive, and a live process whose
\* start() is over and that stop() has not signalled is the one the handle
\* names.
C14_OneLiveProcessHeldByHandle ==
  /\ Cardinality({i \in Procs : Alive(i)}) <= 1
  /\ \A i \in Procs :
       (proc[i] = "alive" /\ startPc[i] # "awaitReady") => analyzerRpcServer = i

\* A step in which process i ends.
ProcessEnds(i) == Alive(i) /\ proc'[i] \in {"exited", "signalled"}

\* C15: a process that ends before its readiness line was seen leaves the
\* state startFailed and makes the start() that waits for it fail; a process
\* that ends after its readiness line leaves the state stopped.
C15_ExitBeforeAndAfterReady ==
  [][ \A i \in Procs : ProcessEnds(i) =>
        IF processStarted[i]
          THEN serverState' = "stopped"
          ELSE /\ serverState' = "startFailed"
               /\ (startPc[i] = "awaitReady" =>
                     /\ startPc'[i] = "returned"
                     /\ lastOp' = "startRejected"
                     /\ analyzerRpcServer' # i) ]_vars

\* C15 witness: a process has ended before it was ready and the start() that
\* waited for it has failed.
C15_Witness ==
  /\ lastOp = "startRejected"
  /\ serverState = "startFailed"
  /\ \E i \in Procs : /\ proc[i] \in {"exited", "signalled"}
                       /\ ~processStarted[i]
                       /\ startPc[i] = "returned"

\* ------------------------------------------------ claims on the requests

\* C16: a rejected Analyze or getCodeplanAgentSolution request leaves the
\* server state and the connection as they were, is reported (isAnalyzing
\* back to false, solutionState failedOnSending), and so leaves the guards
\* of runAnalysis and getSolution as they were for the next call.
C16_RequestErrorKeepsServerState ==
  [][ lastOp' \in {"analysisFailed", "solutionFailed"} =>
        /\ fired' = << >>
        /\ UNCHANGED <<serverState, isStartingServer, handleVars>>
        /\ RunAnalysisAllowed' = RunAnalysisAllowed
        /\ GetSolutionAllowed' = GetSolutionAllowed
        /\ lastOp' = "analysisFailed" => ~isAnalyzing'
        /\ lastOp' = "solutionFailed" => solutionState' = "failedOnSending" ]_vars

\* C16 witness: a getSolution request was rejected on a running server.
C16_Witness ==
  /\ lastOp = "solutionFailed"
  /\ serverState = "running"
  /\ solutionState = "failedOnSending"

\* C17: a cancelled runAnalysis (before the request, or while it is in
\* flight) loads no rule sets, leaves the server state as it was and
\* isAnalyzing false; the response that arrives later is not loaded.
C17_CancelledAnalysisLoadsNothing ==
  [][ lastOp' \in {"runAnalysisCancelledEarly", "analysisCancelled", "responseDropped"} =>
        /\ fired' = << >>
        /\ UNCHANGED <<serverState, isStartingServer>>
        /\ IF lastOp' = "responseDropped" THEN UNCHANGED isAnalyzing
                                          ELSE ~isAnalyzing' ]_vars

\* C17 witness: the response to a cancelled request has just arrived.
C17_Witness ==
  /\ lastOp = "responseDropped"
  /\ serverState = "running"
  /\ ~isAnalyzing

\* C19: a malformed Analyze response executes no konveyor.loadRuleSets,
\* leaves the server state as it was and isAnalyzing false.
C19_MalformedResponseNotLoaded ==
  [][ lastOp' = "analysisMalformed" =>
        /\ fired' = << >>
        /\ UNCHANGED <<serverState, isStartingServer>>
        /\ ~isAnalyzing' ]_vars

\* C19 witness: a malformed response has just been handled.
C19_Witness ==
  /\ lastOp = "analysisMalformed"
  /\ serverState = "running"
  /\ ~isAnalyzing

\* ------------------------------------------------- claims on the trigger

\* C1: a notify flush never dispatches, and no second analysis flush
\* dispatches, while an analysis flush awaits runAnalysis; and no analysis
\* flush dispatches while a notify flush awaits notifyFileChanges; stated
\* for the behaviours without a direct runAnalysis call (lastOp is still
\* "constructed"), where file changes and timers are all that happens.
C1_FlushesNeverOverlap ==
  [][ lastOp' = "constructed" =>
        /\ Len(analysisFlights') > Len(analysisFlights) =>
             (analysisFlights = << >> /\ notifyFlights = << >>)
        /\ Len(notifyFlights') > Len(notifyFlights) => analysisFlights = << >>
    ]_vars

\* C2: at most one Analyze request awaits its response, counting the runs
\* of the trigger and the direct runAnalysis calls, and at most one notify
\* batch awaits its response.
C2_AtMostOneRequestInFlight ==
  /\ directRuns + Len(analysisFlights) <= 1
  /\ Len(notifyFlights) <= 1

TouchedPaths == {p \in Paths : version[p] > 0}

\* C3: in hot-rerun mode, when every file change is reported before a timer
\* fires, the one notify call carries one entry per changed path with its
\* latest content, and the one analysis call lists each changed path once.
C3_OneBatchPerPath ==
  [][ (enableHotRerun /\ ignoredPaths = {} /\ ~lateEvent) =>
        /\ Len(notifyFlights') > Len(notifyFlights) =>
             /\ notifyCalls' = 1
             /\ Cardinality(NotifyBatch) = Cardinality(TouchedPaths)
             /\ \A p \in TouchedPaths : \E c \in NotifyBatch :
                  FsPath(c.path) = p /\ c.content = version[p]
        /\ analysisCalls' > analysisCalls =>
             /\ analysisCalls' = 1
             /\ \A p \in TouchedPaths :
                  Cardinality({u \in AnalysisBatch : FsPath(u) = p}) = 1
    ]_vars

\* isAnalyzing is true exactly while a runAnalysis call, direct or of the
\* trigger, has sent its request and not yet returned.
IsAnalyzingTracksRuns == isAnalyzing <=> (directRuns + Len(analysisFlights) > 0)

\* C18: isAnalyzing is true at every moment a runAnalysis call is in progress
\* and false whenever none is: no step breaks this, leaving aside the calls
\* that find their progress token cancelled before the request is sent.
C18_IsAnalyzingTracksRuns ==
  [][ (IsAnalyzingTracksRuns /\ lastOp' # "runAnalysisCancelledEarly")
        => IsAnalyzingTracksRuns' ]_vars

\* The paths of a set of Uri objects.
PathsOf(uris) == {FsPath(u) : u \in uris}

\* The entry notifyFileChanges puts in the map for the change it was given.
ReportedChange ==
  [path |-> lastChange'.path, content |-> version'[FsPath(lastChange'.path)]]

\* C20: notifyFileChanges(change) sets the map entry of the path to the
\* change in both modes; with hot rerun it adds the path to the analysis
\* set, without it only when the change is saved.
C20_NotifyFileChangesQueues ==
  [][ lastChange' # NoReport =>
        /\ notifyFileChangesQueue' =
             [notifyFileChangesQueue EXCEPT ![FsPath(lastChange'.path)] = ReportedChange]
        /\ PathsOf(analysisFileChangesQueue') =
             IF enableHotRerun \/ lastChange'.saved
               THEN PathsOf(analysisFileChangesQueue) \cup {FsPath(lastChange'.path)}
               ELSE PathsOf(analysisFileChangesQueue) ]_vars

\* C20 as amended: with hot rerun notifyFileChanges(change) sets the map
\* entry of the path to the change, adds the Uri to the analysis set and
\* schedules both flushes; without hot rerun it leaves the map and the
\* notify timer alone, and adds the Uri to the analysis set and schedules
\* the analysis flush only when the change is saved.
C20_NotifyFileChangesByMode ==
  [][ lastChange' # NoReport =>
        IF enableHotRerun
          THEN /\ notifyFileChangesQueue' =
                    [notifyFileChangesQueue EXCEPT ![FsPath(lastChange'.path)] = ReportedChange]
               /\ analysisFileChangesQueue' = analysisFileChangesQueue \cup {lastChange'.path}
               /\ notifyTimer' /\ analysisTimer'
          ELSE /\ UNCHANGED <<notifyFileChangesQueue, notifyTimer>>
               /\ IF lastChange'.saved
                    THEN /\ analysisFileChangesQueue' =
                              analysisFileChangesQueue \cup {lastChange'.path}
                         /\ analysisTimer'
                    ELSE UNCHANGED <<analysisFileChangesQueue, analysisTimer>> ]_vars

\* C20 witness: without hot rerun an unsaved change to a file was just
\* reported while a saved one is staged for analysis.
C20_Witness ==
  /\ ~enableHotRerun
  /\ lastChange # NoReport
  /\ ~lastChange.saved
  /\ analysisFileChangesQueue # {}
  /\ lastChange.path \notin analysisFileChangesQueue

\* A step in which a runAnalysis call of the trigger returns without having
\* loaded rule sets: its response settled, or it returned at once.
AnalysisDispatchFails ==
  /\ \/ Len(analysisFlights') < Len(analysisFlights)
     \/ analysisCalls' = analysisCalls + 1 /\ analysisFlights' = analysisFlights
  /\ fired' # <<"loadRuleSets">>

\* C21: an analysis dispatch that does not succeed (request error, server
\* not running, cancelled, malformed response) removes nothing from the
\* analysis set, and a notify dispatch removes at most the paths it sent.
C21_FailedDispatchKeepsEntries ==
  [][ /\ AnalysisDispatchFails =>
           analysisFileChangesQueue \subseteq analysisFileChangesQueue'
      /\ Len(notifyFlights') < Len(notifyFlights) =>
           \A p \in Paths :
             notifyFileChangesQueue'[p] # notifyFileChangesQueue[p] =>
               \E k \in 1..Len(notifyFlights) :
                 \E c \in notifyFlights[k] : FsPath(c.path) = p ]_vars

\* A step in which the notify call of flight k succeeds, no change to a
\* dispatched path having been reported since the batch was taken.
NotifyDispatchSucceeds(k) ==
  /\ NotifyFlushDone(k, TRUE)
  /\ notifyFlights[k] = NotifyBatch

\* A step in which the analysis run of flight k loads its rule sets, no
\* further Uri having been staged since the batch was taken.
AnalysisDispatchSucceeds(k) ==
  /\ k \in 1..Len(analysisFlights)
  /\ analysisFlights' = RemoveAt(analysisFlights, k)
  /\ fired' = <<"loadRuleSets">>
  /\ analysisFlights[k] = AnalysisBatch

\* C22: after a successful dispatch during which no new change was enqueued
\* the dispatched queue (notify map, analysis set) is empty.
C22_SuccessfulDispatchEmptiesQueue ==
  [][ \A k \in 1..MaxFlights :
        /\ NotifyDispatchSucceeds(k) =>
             notifyFileChangesQueue' = [p \in Paths |-> NoChange]
        /\ AnalysisDispatchSucceeds(k) => analysisFileChangesQueue' = {} ]_vars

\* C22 as amended: after a successful dispatch during which no new change
\* was enqueued the dispatched queue holds no entry that is not ignored; the
\* entries of ignored paths, which were not sent, stay in the queue.
C22_SuccessfulDispatchLeavesIgnored ==
  [][ \A k \in 1..MaxFlights :
        /\ NotifyDispatchSucceeds(k) =>
             /\ NotifyBatch' = {}
             /\ \A p \in ignoredPaths :
                  notifyFileChangesQueue'[p] = notifyFileChangesQueue[p]
        /\ AnalysisDispatchSucceeds(k) =>
             /\ AnalysisBatch' = {}
             /\ analysisFileChangesQueue' =
                  {u \in analysisFileChangesQueue : IsUriIgnored(u)} ]_vars

\* C22 witness: an analysis run of the trigger just loaded its rule sets and
\* the analysis set still holds the Uri of an ignored file.
C22_Witness ==
  /\ fired = <<"loadRuleSets">>
  /\ analysisFlights = << >>
  /\ version["A"] > 0
  /\ analysisFileChangesQueue = {"b1"}
  /\ IsUriIgnored("b1")

\* The Uris of the batch a flush hands out in this step, if it does.
NotifySent == IF notifyCalls' > notifyCalls THEN {c.path : c \in NotifyBatch} ELSE {}
AnalysisSent == IF analysisCalls' > analysisCalls THEN AnalysisBatch ELSE {}

\* C23: notifyFileChanges accepts an ignored path into the queues; no
\* notify batch and no analysis request holds a path that is ignored when
\* the flush runs; a flush that finds only ignored entries makes no notify
\* call and no analysis call.
C23_IgnoredPathsNeverDispatched ==
  [][ /\ \A u \in NotifySent \cup AnalysisSent : ~IsUriIgnored(u)
      /\ notifyCalls' > notifyCalls =>
           /\ NotifySent # {}
           /\ notifyFlights' = Append(notifyFlights, NotifyBatch)
      /\ analysisCalls' > analysisCalls => AnalysisSent # {}
      /\ Len(analysisFlights') > Len(analysisFlights) =>
           analysisFlights' = Append(analysisFlights, AnalysisSent)
      /\ (\A u \in analysisFileChangesQueue : IsUriIgnored(u)) =>
           /\ analysisCalls' = analysisCalls
           /\ Len(analysisFlights') <= Len(analysisFlights)
      /\ (\A p \in Paths : notifyFileChangesQueue[p] # NoChange =>
              IsUriIgnored(notifyFileChangesQueue[p].path)) =>
           /\ notifyCalls' = notifyCalls
           /\ Len(notifyFlights') <= Len(notifyFlights)
      /\ (lastChange' # NoReport /\ IsUriIgnored(lastChange'.path)) =>
           /\ (enableHotRerun \/ lastChange'.saved) =>
                lastChange'.path \in analysisFileChangesQueue'
           /\ enableHotRerun =>
                notifyFileChangesQueue'[FsPath(lastChange'.path)].path = lastChange'.path
    ]_vars

\* C23 witness: a flush ran (its timer fired and expired) and made no call
\* while both queues hold an entry of the ignored file and nothing else.
C23_Witness ==
  /\ IsUriIgnored("b1")
  /\ analysisFileChangesQueue = {"b1"}
  /\ notifyFileChangesQueue["B"] # NoChange
  /\ notifyFileChangesQueue["A"] = NoChange
  /\ flushSeen
  /\ ~notifyTimer /\ ~analysisTimer
  /\ notifyCalls = 0 /\ analysisCalls = 0

\* C24: with timers that fire and a peer that eventually accepts, every
\* queued change of a path that is not ignored is eventually notified
\* successfully (its map entry is deleted), and on a running server every
\* staged Uri that is not ignored is eventually followed by an analysis run
\* that loads its results.
C24_FailedEntriesRetried ==
  /\ \A p \in Paths :
       (notifyFileChangesQueue[p] # NoChange /\ p \notin ignoredPaths)
         ~> (notifyFileChangesQueue[p] = NoChange)
  /\ \A u \in UriObjs :
       (serverState = "running" /\ u \in AnalysisBatch)
         ~> (fired = <<"loadRuleSets">>)

\* Call d is a lookup that was started after the update call c had returned
\* its entry directory, with the input and the cache key of c.
LookupFollowsUpdate(c, d) ==
  /\ call[c].op = "update"
  /\ call[c].result.kind = "path"
  /\ call[d].op = "lookup"
  /\ c \in call[d].after
  /\ call[d].input = call[c].input
  /\ call[d].cacheKey = call[c].cacheKey

\* C25: a lookup that follows a successful update with the same input and
\* cache key, and meets no I/O error, finds the output record and returns a
\* list whose first message equals the message that was stored.
C25_LookupAfterUpdateHits ==
  [][ \A c, d \in Calls :
        LookupFollowsUpdate(c, d) =>
          /\ Stat(d, TRUE) => call'[d].pc = "readFile"
          /\ ReadFile(d, TRUE) =>
               /\ call'[d].result.kind = "messages"
               /\ Len(call'[d].result.messages) >= 1
               /\ call'[d].result.messages[1] = call[c].value ]_vars

\* C25 witness: an update with a list of mixed messages returned its
\* directory, and the lookup made afterwards with that list returned messages.
C25_Witness ==
  /\ LookupFollowsUpdate("c1", "c2")
  /\ call["c1"].input.shape = "list"
  /\ Len(call["c1"].input.items) = 2
  /\ call["c2"].result.kind = "messages"

\* C26: lookup never raises and never changes a file or a directory; it
\* returns undefined when the input cannot be serialized, when there is no
\* output record, when stat or readFile fails, and when the output record is
\* not the JSON text of a list.
C26_LookupNeverRaises ==
  [][ \A d \in Calls :
        (call'[d].op = "lookup" /\ call'[d] # call[d]) =>
          /\ UNCHANGED <<files, dirs>>
          /\ call'[d].result.kind \in {"pending", "undefined", "messages"}
          /\ (call[d].pc = "idle" /\
                (cacheDir = Undefined \/ ~Serialize(call'[d].input).ok)) =>
               call'[d].result = ReturnsUndefined
          /\ (call[d].pc = "stat" /\
                (files[<<call[d].base, "output.json">>] = Absent \/ Stat(d, FALSE))) =>
               call'[d].result = ReturnsUndefined
          /\ (call[d].pc = "readFile" /\
                (files[<<call[d].base, "output.json">>].kind # "json" \/ ReadFile(d, FALSE))) =>
               call'[d].result = ReturnsUndefined ]_vars

\* C26 witness: a lookup returned undefined after reading an output record
\* that holds JSON that is not a list.
C26_Witness ==
  \E d \in Calls :
    /\ call[d].op = "lookup"
    /\ call[d].result = ReturnsUndefined
    /\ call[d].at = "readFile"
    /\ files[<<call[d].base, "output.json">>] = NotAList

\* An update call that returned a directory.
UpdateSucceeded(c) == call[c].op = "update" /\ call[c].result.kind = "path"

\* C27: update returns cacheDir/cacheKey/hash(input) exactly when its write
\* of the output record succeeded, the directory and the input record being
\* in place by then; otherwise (a failed step, unsupported data, no cache
\* directory) it returns undefined, never raises, and its failing step
\* writes nothing, so that every output record a lookup can parse was
\* written by an update that returned its directory.
C27_UpdateReturnsDirIffWritten ==
  /\ [](\A c \in Calls :
          UpdateSucceeded(c) =>
            /\ call[c].result.path = <<cacheDir, call[c].cacheKey, Hash(call[c].input)>>
            /\ call[c].result.path \in dirs
            /\ files[<<call[c].result.path, "input.json">>] =
                 Stringify(Serialize(call[c].input).stored))
  /\ [](\A b \in BasePaths :
          files[<<b, "output.json">>].kind = "json" =>
            \E d \in Calls :
              /\ UpdateSucceeded(d)
              /\ call[d].result.path = b
              /\ files[<<b, "output.json">>] = Stringify(Serialize(call[d].value).stored))
  /\ [][ \A c \in Calls :
           (call'[c].op = "update" /\ call'[c].pc = "done" /\ call[c].pc # "done") =>
             /\ call'[c].result.kind \in {"path", "undefined"}
             /\ call'[c].result.kind = "path" <=> WriteOutput(c, TRUE)
             /\ call'[c].result.kind = "undefined" => UNCHANGED <<files, dirs>>
             /\ cacheDir = Undefined => call'[c].result = ReturnsUndefined ]_vars

\* C27 witness: an update wrote its input record, opened its output record
\* and failed to write it: it returned undefined and the output record is
\* empty.
C27_Witness ==
  \E c \in Calls :
    /\ call[c].op = "update"
    /\ call[c].at = "writeOutput"
    /\ call[c].result = ReturnsUndefined
    /\ files[<<call[c].base, "input.json">>].kind = "json"
    /\ files[<<call[c].base, "output.json">>] = Empty

\* The shapes in which the one human message with content s is given.
ShapesOf(s) ==
  { StringInput(s),
    Message("human", s),
    ListInput(<<Message("human", s)>>),
    ListInput(<<StringInput(s)>>) }

\* The list of messages an input stands for.
NormalizedMessages(input) == MapStoredMessagesToChatMessages(Serialize(input).stored)

\* C28: the string s, the human message s, the list of that message and the
\* list of the string s have one key; two inputs have the same key exactly
\* when they stand for the same list of messages.
C28_ShapesShareOneKey ==
  \A c, d \in Calls :
    (call[c].pc = "done" /\ call[d].pc = "done") =>
      /\ \A s \in Texts :
           (call[c].input \in ShapesOf(s) /\ call[d].input \in ShapesOf(s)) =>
             /\ call[c].result.kind = "key"
             /\ call[c].result = call[d].result
      /\ (call[c].result.kind = "key" /\ call[d].result.kind = "key") =>
           ( call[c].result.key = call[d].result.key
               <=> NormalizedMessages(call[c].input) = NormalizedMessages(call[d].input) )

\* C28 witness: the string Hello and the list holding the string Hello were
\* hashed, and the keys are the same.
C28_Witness ==
  /\ call["c1"].input = StringInput("Hello")
  /\ call["c2"].input = ListInput(<<StringInput("Hello")>>)
  /\ call["c1"].pc = "done" /\ call["c2"].pc = "done"
  /\ call["c1"].result.kind = "key"
  /\ call["c1"].result.key = call["c2"].result.key

\* The update calls that returned the directory b.
UpdatesOf(b) == {d \in Calls : UpdateSucceeded(d) /\ call[d].result.path = b}

\* C29: without a lock, a step of a call changes only the records of its own
\* directory; once the updates of a directory have all returned it, its
\* output record is the text one of them wrote; a lookup returns undefined
\* or the whole message written by an update of its directory.
C29_ConcurrentCallsNeedNoLock ==
  /\ [][ \A c \in Calls :
           call'[c] # call[c] =>
             /\ \A p \in BasePaths \X RecordNames :
                  files'[p] # files[p] => p[1] = call[c].base
             /\ \A b \in BasePaths : (b \in dirs' /\ b \notin dirs) => b = call[c].base
       ]_vars
  /\ [](\A b \in BasePaths :
          ( /\ UpdatesOf(b) # {}
            /\ \A d \in Calls :
                 (call[d].op = "update" /\ call[d].base = b) => UpdateSucceeded(d) ) =>
            \E d \in UpdatesOf(b) :
              files[<<b, "output.json">>] = Stringify(Serialize(call[d].value).stored))
  /\ [](\A c \in Calls :
          (call[c].op = "lookup" /\ call[c].result.kind = "messages") =>
            \E d \in Calls :
              /\ call[d].op = "update"
              /\ call[d].base = call[c].base
              /\ call[c].result.messages = <<call[d].value>>)

\* C30: a step of trace changes only the records named input and output of
\* its own directory traceDir/cacheKey/hash(input); trace returns that
\* directory exactly when its write of the output record succeeded, the
\* readable rendering of the input being in place and that of the value
\* written, and returns undefined otherwise without raising; an output
\* record that lookup can parse exists only where an update wrote it.
C30_TraceIsWriteOnly ==
  /\ [][ \A c \in Calls :
           (call'[c].op = "trace" /\ call'[c] # call[c]) =>
             /\ \A p \in BasePaths \X RecordNames :
                  files'[p] # files[p] =>
                    (p[1] = call'[c].base /\ p[2] \in {"input", "output"})
             /\ call'[c].result.kind \in {"pending", "path", "undefined"}
             /\ call'[c].result.kind = "path" <=> WriteOutput(c, TRUE)
             /\ call'[c].result.kind = "path" =>
                  LET dir == <<traceDir, call'[c].cacheKey, Hash(call'[c].input)>>
                  IN /\ call'[c].result.path = dir
                     /\ dir \in dirs
                     /\ files'[<<dir, "input">>] =
                          PrettyPrint(Serialize(call'[c].input).stored)
                     /\ files'[<<dir, "output">>].kind \in {"text", "garbled"}
                     /\ files[<<dir, "output">>] = Empty =>
                          files'[<<dir, "output">>] =
                            PrettyPrint(Serialize(call'[c].value).stored) ]_vars
  /\ [](\A b \in BasePaths :
          files[<<b, "output.json">>].kind = "json" =>
            \E d \in Calls : call[d].op = "update" /\ call[d].base = b)

\* C30 witness: the tracer and the cache share a directory, a trace returned
\* its directory, and the lookup made afterwards with the same input and
\* cache key found no output record.
C30_Witness ==
  /\ traceDir = cacheDir
  /\ call["c1"].op = "trace"
  /\ call["c1"].result.kind = "path"
  /\ files[<<call["c1"].base, "output">>].kind = "text"
  /\ call["c2"].op = "lookup"
  /\ "c1" \in call["c2"].after
  /\ call["c2"].base = call["c1"].base
  /\ call["c2"].at = "stat"
  /\ call["c2"].result = ReturnsUndefined
\* ------------------------------------------------------------------ C32
\* A step in which a callback of the scheduler calls increaseBackoff().
NotifyIncreases == \E k \in 1..MaxFlights, ok \in BOOLEAN : NotifyFlushDone(k, ok)
AnalysisIncreases ==
  \/ \E k \in 1..MaxFlights, o \in AnalyzeOutcomes \cup {"analysisCancelled"} :
        AnalysisFlushDone(k, o)
  \/ /\ \E c \in BOOLEAN : AnalysisTimerFires(c)
     /\ analysisCalls' # analysisCalls
     /\ analysisFlights' = analysisFlights

Least(a, b) == IF a < b THEN a ELSE b

\* C32: the delay of a scheduler starts at its initial delay; every
\* increaseBackoff() sets it to min(delay + increment, maxDelay); no other
\* step changes it, so it is never lowered; it always lies between the initial
\* and the maximum delay.  With 1000/10000/10000 the notify delay is 10000
\* after one increase; with 5000/30000/10000 the analysis delay goes 5000,
\* 15000, 25000 and is 30000 after three increases.
C32_DelayBounds ==
  /\ notifyDelay = NotifyInitialDelay
  /\ analysisDelay = AnalysisInitialDelay
  /\ [](/\ NotifyInitialDelay <= notifyDelay /\ notifyDelay <= NotifyMaxDelay
        /\ AnalysisInitialDelay <= analysisDelay /\ analysisDelay <= AnalysisMaxDelay)
  /\ [][/\ notifyDelay' >= notifyDelay
        /\ analysisDelay' >= analysisDelay
        /\ IF NotifyIncreases
             THEN /\ notifyDelay' = Least(notifyDelay + NotifyIncrement, NotifyMaxDelay)
                  /\ notifyDelay = 1000 => notifyDelay' = 10000
             ELSE notifyDelay' = notifyDelay
        /\ IF AnalysisIncreases
             THEN /\ analysisDelay' =
                       Least(analysisDelay + AnalysisIncrement, AnalysisMaxDelay)
                  /\ <<analysisDelay, analysisDelay'>> \in
                       {<<5000, 15000>>, <<15000, 25000>>, <<25000, 30000>>,
                        <<30000, 30000>>}
             ELSE analysisDelay' = analysisDelay]_vars

\* Both schedulers have reached their maximum delay: the notify callback
\* increased once, the analysis callback three times.
C32_Witness ==
  /\ notifyDelay = 10000
  /\ analysisDelay = 30000
  /\ analysisCalls >= 3
  /\ notifyCalls >= 1

\* ------------------------------------------------------------------ C31
\* A step in which notifyFileChanges calls schedule on both schedulers.
SchedulesBoth == lastChange' # NoReport /\ enableHotRerun

\* One timer per schedule call, one invocation per timer.
DebouncedStep ==
  /\ SchedulesBoth =>
       /\ notifyTimer' = Scheduled /\ notifyTimeout' = notifyDelay
       /\ analysisTimer' = Scheduled /\ analysisTimeout' = analysisDelay
  /\ NotifyTimerFires =>
       /\ notifyTimer = Scheduled /\ notifyTimeout = 0
       /\ notifyTimer' = Scheduled =>
            /\ notifyTimeout' = notifyDelay
            /\ notifyFlights' = notifyFlights
  /\ (\E c \in BOOLEAN : AnalysisTimerFires(c)) =>
       /\ analysisTimer = Scheduled /\ analysisTimeout = 0
       /\ analysisTimer' = Scheduled =>
            /\ analysisTimeout' = analysisDelay
            /\ analysisFlights' = analysisFlights

\* isRunningCallback() of each scheduler answers whether one of its
\* invocations is executing (awaiting its call).
BusyWhileExecuting ==
  /\ notifyRunning = Busy <=> notifyFlights # << >>
  /\ analysisRunning = Busy <=> analysisFlights # << >>

\* C31: schedule debounces.  After a schedule call exactly one timer of the
\* scheduler is pending and it runs the full current delay from that call,
\* however many calls came before; the task is invoked only by a pending
\* timer whose delay has passed, once for that timer (afterwards a timer is
\* pending only when the task scheduled itself again); and isRunningCallback()
\* is true exactly while an invocation of the task is executing.
C31_ScheduleDebounces == [][DebouncedStep]_vars /\ []BusyWhileExecuting

\* ------------------------------------------------------------------ C33
\* The state of the two schedulers and of the queues.
schedulerVars == <<queueVars, notifyVars, analysisVars, notifyCalls, analysisCalls>>

\* C33: after dispose() no timer of the two schedulers is pending; a task
\* is invoked only by a pending timer and a timer becomes pending only by a
\* schedule call of notifyFileChanges, so a task whose timer was cancelled is
\* not invoked unless schedule is called again; a dispose() that finds no
\* pending timer (a second dispose() among them) changes nothing.
C33_DisposeCancelsTimers ==
  /\ [](lastChange = DisposeCall => notifyTimer = Expired /\ analysisTimer = Expired)
  /\ [][/\ notifyCalls' # notifyCalls => notifyTimer = Scheduled
        /\ analysisCalls' # analysisCalls => analysisTimer = Scheduled
        /\ notifyTimer = Expired /\ notifyTimer' = Scheduled =>
             lastChange' \notin {NoReport, DisposeCall}
        /\ analysisTimer = Expired /\ analysisTimer' = Scheduled =>
             lastChange' \notin {NoReport, DisposeCall}
        /\ /\ lastChange' = DisposeCall
           /\ notifyTimer = Expired
           /\ analysisTimer = Expired
           => UNCHANGED schedulerVars
        /\ lastChange' = DisposeCall =>
             UNCHANGED <<queueVars, notifyRunning, notifyDelay, notifyFlights,
                         analysisRunning, analysisDelay, analysisFlights>>]_vars

\* dispose() has just cancelled the timers of a change that was never
\* dispatched: file A is queued on both sides, no callback has dispatched
\* anything, and no timer is pending.
C33_Witness ==
  /\ lastChange = DisposeCall
  /\ enableHotRerun
  /\ notifyFileChangesQueue["A"] # NoChange
  /\ analysisFileChangesQueue # {}
  /\ notifyCalls = 0
  /\ analysisCalls = 0
  /\ notifyTimer = Expired
  /\ analysisTimer = Expired

\* ------------------------------------------------------------------ C35
\* C35: when a notify flush completes, a change that was queued for a path
\* of its batch while the flush was awaiting the peer (a content newer than
\* the one the batch holds for that path) is still in the notify queue.
C35_NoChangeLostToFlush ==
  [][\A k \in 1..MaxFlights, ok \in BOOLEAN :
       NotifyFlushDone(k, ok) =>
         \A c \in notifyFlights[k] :
           LET queued == notifyFileChangesQueue[FsPath(c.path)]
           IN queued # NoChange /\ queued.content > c.content =>
                notifyFileChangesQueue'[FsPath(c.path)] = queued]_vars

\* ------------------------------------------------------------------ C36
\* C36: the exit event of a process that an earlier stop() killed, arriving
\* when a start() called after that stop() resolved has succeeded (its process
\* is alive and held by the handle, its connection is in place, no other
\* start() or stop() is under way), leaves the server state as it is.
C36_LateExitKeepsLaterSession ==
  [][\A i \in Procs, how \in ExitKinds :
       /\ ProcessExit(i, how)
       /\ proc[i] = "terminating"
       /\ analyzerRpcServer \notin {0, i}
       /\ proc[analyzerRpcServer] = "alive"
       /\ startPc[analyzerRpcServer] = "returned"
       /\ rpcConnection = analyzerRpcServer
       /\ serverState \in {"connectionEstablished", "running"}
       /\ \A j \in Procs : startPc[j] \in {"idle", "returned"}
       /\ stopPc = "idle"
       /\ stopDone = FALSE
       => serverState' = serverState]_vars

\* ------------------------------------------------------------------ C37
\* What one step of a getSolution call may fire.
SolutionMoves ==
  {<<"started", "failedOnStart">>, <<"started", "sent">>, <<"received">>,
   <<"failedOnSending">>}

\* C37: a getSolution call fires started and failedOnStart, sending no
\* request, when the server is not running or has no connection, and started
\* and sent, with the request, otherwise; the request in flight then settles
\* with received or failedOnSending; solutionState changes in no other way;
\* a request is sent only by a step that ends in state sent;
\* isFetchingSolution is true exactly while solutionState is sent; and a
\* my_progress message is added to the chat messages only in state sent.
C37_SolutionStatePath ==
  /\ [](isFetchingSolution <=> solutionState = "sent")
  /\ [][/\ GetSolution =>
             IF serverState = "running" /\ rpcConnection # 0
               THEN /\ solutionFired' = <<"started", "sent">>
                    /\ solutionRuns' = solutionRuns + 1
               ELSE /\ solutionFired' = <<"started", "failedOnStart">>
                    /\ solutionRuns' = solutionRuns
        /\ (\E ok \in BOOLEAN : SolutionResponse(ok)) =>
             /\ solutionRuns > 0
             /\ solutionRuns' = solutionRuns - 1
             /\ solutionFired' \in {<<"received">>, <<"failedOnSending">>}
        /\ solutionState' # solutionState =>
             /\ solutionFired' \in SolutionMoves
             /\ solutionState' = solutionFired'[Len(solutionFired')]
        /\ solutionRuns' > solutionRuns => solutionState' = "sent"
        /\ Len(ProgressMessages') > Len(ProgressMessages) =>
             solutionState = "sent" /\ solutionState' = "sent"]_vars

\* A call went started, sent, received, and a my_progress message of the
\* server was added while it was awaited.
C37_Witness ==
  /\ solutionState = "received"
  /\ solutionFired = <<"received">>
  /\ chatMessages = <<"Checking server state...", "Waiting for the resolution...",
                      "my_progress", "Received response...">>

\* ------------------------------------------------------------------ C34
\* The diagnostics a set of FlatDiagnostic objects stands for.
DiagnosticsOf(flat) == {o.diagnostic : o \in flat}

\* C34: getNewTasks returns exactly the diagnostics that are present now
\* and were not in the snapshot of the previous call; with unchanged
\* diagnostics a second call returns the empty list.
C34_NewTasksAreNewDiagnostics ==
  [][GetNewTasks =>
       DiagnosticsOf(tasksReturned') = diagnostics \ DiagnosticsOf(lastDiagnostics)]_vars

\* C38: lookup(tool, input) returns a stored response only if update stored
\* it for the same tool and the same input parameters: a response that
\* lookup returns is the response of an entry stored for exactly the tool and
\* the parameters of the lookup.
C38_LookupOnlySameToolAndInput ==
  (toolCall.op = "lookup" /\ toolCall.returned # Undefined) =>
    \E p \in DOMAIN toolFiles :
      /\ toolFiles[p] # TornFile
      /\ toolFiles[p].toolName = toolCall.toolName
      /\ toolFiles[p].input = toolCall.input
      /\ toolFiles[p].response = toolCall.returned

RouterLength == Len(routerState.incidentsByUris)

\* One invocation of the router: below the length the index advances by
\* exactly one; a failed read emits the error message and hands over no file;
\* the accumulation branch is taken exactly when length invocations or more
\* came before.
RouterInvocation ==
  routerCalls' = routerCalls + 1 =>
    /\ routerState.currentIdx < RouterLength =>
         routerState'.currentIdx = routerState.currentIdx + 1
    /\ routerOut'.read = "fail" =>
         /\ routerOut'.error
         /\ routerState'.fileUri = Undefined
         /\ routerState'.incidentsDescription = Undefined
    /\ routerOut'.accumulated <=> routerCalls >= RouterLength

\* The fix node run after a failed read returns no response.
NoFixAfterFailedRead ==
  (routerOut.read = "fail" /\ routerOut'.node = "fix") =>
    routerState'.response = Undefined

RouterBounded ==
  /\ routerState.currentIdx <= RouterLength
  /\ routerState.currentIdx =
       IF routerCalls < RouterLength THEN routerCalls ELSE RouterLength

\* C39: the analysis-fix router is a bounded loop over incidentsByUris: an
\* invocation with currentIdx below the length advances currentIdx by exactly
\* one, also when the read fails (the error message is emitted and the fix
\* node gets no file); currentIdx never exceeds the length; started at 0, the
\* accumulation branch is reached after exactly length invocations.
C39_RouterBoundedLoop ==
  /\ [][RouterInvocation /\ NoFixAfterFailedRead]_vars
  /\ []RouterBounded

\* The read of the last of several files failed and the index is at the
\* length of the list.
C39_Witness ==
  /\ RouterLength >= 2
  /\ routerOut.read = "fail"
  /\ routerOut.error
  /\ routerState.currentIdx = RouterLength

OrchestratorInvoked == orchCalls' = orchCalls + 1

NominatedAgents == orchState.outputNominatedAgents.items

\* No diagnostics task, no additional information and no nominated agent is
\* left.
NoWorkLeft ==
  /\ Len(orchState.inputDiagnosticsTasks.items) = 0
  /\ orchState.inputSummarizedAdditionalInfo = Undefined
  /\ Len(NominatedAgents) = 0

\* Nominated agents are handed out one per invocation, before anything is
\* planned.
AgentsHandedOutFirst ==
  (OrchestratorInvoked /\ Len(NominatedAgents) > 0) =>
    /\ orchOut'.branch = "agent"
    /\ Len(orchState'.outputNominatedAgents.items) = Len(NominatedAgents) - 1
    /\ orchState'.plannerInputTasks = orchState.plannerInputTasks
    /\ orchState'.inputDiagnosticsTasks = orchState.inputDiagnosticsTasks
    /\ orchState'.inputSummarizedAdditionalInfo = orchState.inputSummarizedAdditionalInfo

\* Additional information is planned before any diagnostics task.
InfoPlannedFirst ==
  (/\ OrchestratorInvoked
   /\ Len(NominatedAgents) = 0
   /\ orchState.inputSummarizedAdditionalInfo # Undefined) =>
    /\ orchOut'.branch = "info"
    /\ orchState'.plannerInputTasks = "additionalInfo"
    /\ orchState'.inputDiagnosticsTasks = orchState.inputDiagnosticsTasks

\* With nothing to work on the orchestrator sets shouldEnd, or asks the IDE
\* when diagnostics fixes are enabled.
EndsOrAsksWithoutWork ==
  (OrchestratorInvoked /\ NoWorkLeft) =>
    IF orchState.enableDiagnosticsFixes
      THEN orchOut'.asked /\ orchWait'.id \in diagnosticsPromises'
      ELSE orchState'.shouldEnd /\ ~orchOut'.asked

\* The wait ends with tasks to work on or with shouldEnd set, and the entry
\* of the request is removed.
WaitEnds ==
  (orchWait.pc = "waiting" /\ orchWait'.pc = "idle") =>
    /\ orchState'.shouldEnd \/ Len(orchState'.inputDiagnosticsTasks.items) > 0
    /\ orchWait.id \notin diagnosticsPromises'

OrchestratorAtRest ==
  /\ orchWait.pc = "idle" => diagnosticsPromises = {}
  /\ orchOut.asked => orchState.enableDiagnosticsFixes

\* C40: the diagnostics orchestrator hands out the agents the planner
\* nominated one per invocation before it plans a new task, plans summarized
\* additional information before any diagnostics task, sets shouldEnd when
\* there is nothing to work on (asking the IDE for tasks only if diagnostics
\* fixes are enabled), and removes the pending entry it registered in every
\* outcome of the wait.
C40_OrchestratorOrder ==
  /\ [][/\ AgentsHandedOutFirst
        /\ InfoPlannedFirst
        /\ EndsOrAsksWithoutWork
        /\ WaitEnds]_vars
  /\ []OrchestratorAtRest

====
